---- MODULE Spec2Model ----
(***************************************************************************)
(* The task-manager state machine: the action validator, the reducer, the  *)
(* deferred error notifications it schedules, and the values they work on. *)
(***************************************************************************)
EXTENDS Integers, Sequences, FiniteSets, TLC

(***************************************************************************)
(* Bounds of the model.                                                    *)
(***************************************************************************)
\* Longest task list the model builds (ADD_TASK is disabled beyond it).
MaxTasks == 3
\* Last value of the millisecond clock (Date.now()).
MaxClock == 1
\* Number of distinct suffixes Math.random() can contribute to an id.
NumRandom == 2
\* Number of reducer calls in one run.
MaxSteps == 4
\* The store calls the reducer only while fewer than MaxTimers deferred
\* callbacks are pending.
MaxTimers == 1
\* Clock units in one local calendar day, for the selectors.
DayLength == 2
\* Number of selector calls in one run.
MaxCalls == 2
\* Number of dispatch calls in one run.
MaxDispatches == 6
\* Number of different smart views read in one run of the store.
MaxViews == 1
\* Number of calls of subscribeToErrors in one run.
MaxListeners == 3

(***************************************************************************)
(* JavaScript values.  Every value is a record [t, v]: t is the kind, v    *)
(* the content.  An action, a payload or a task field can hold any of      *)
(* them, whatever the TypeScript types say.                                *)
(***************************************************************************)
Null == [t |-> "null", v |-> 0]
Undefined == [t |-> "undefined", v |-> 0]
Str(s) == [t |-> "string", v |-> s]
Bool(b) == [t |-> "boolean", v |-> b]
\* An integer n, the fraction n + 1/2, NaN, +Infinity, -Infinity.
Num(n) == [t |-> "number", v |-> [k |-> "int", n |-> n]]
Frac(n) == [t |-> "number", v |-> [k |-> "frac", n |-> n]]
NaN == [t |-> "number", v |-> [k |-> "nan", n |-> 0]]
Infinity == [t |-> "number", v |-> [k |-> "inf", n |-> 0]]
NegInfinity == [t |-> "number", v |-> [k |-> "ninf", n |-> 0]]
\* A plain object: a function from property names to values.
Obj(f) == [t |-> "object", v |-> f]
\* An array: a sequence of values.
Arr(s) == [t |-> "array", v |-> s]

\* typeof x
TypeOf(x) ==
    CASE x.t = "null" -> "object"
      [] x.t = "array" -> "object"
      [] OTHER -> x.t

\* !x is true
Falsy(x) ==
    \/ x.t \in {"null", "undefined"}
    \/ x.t = "string" /\ x.v = ""
    \/ x.t = "boolean" /\ ~x.v
    \/ x.t = "number" /\ (x.v.k = "nan" \/ (x.v.k = "int" /\ x.v.n = 0))

\* Reading a property of null or undefined throws a TypeError.
CanRead(x) == x.t \notin {"null", "undefined"}

\* x.f for a value x that can be read: undefined when x has no such property.
Get(x, f) ==
    IF x.t = "object" /\ f \in DOMAIN x.v THEN x.v[f] ELSE Undefined

IsArray(x) == x.t = "array"

\* x < 0 for a number x
IsNegative(x) ==
    \/ x.v.k = "ninf"
    \/ x.v.k \in {"int", "frac"} /\ x.v.n < 0

IsFinite(x) == x.t = "number" /\ x.v.k \in {"int", "frac"}
IsInteger(x) == x.t = "number" /\ x.v.k = "int"

\* String.prototype.trim, on the text of a string
RECURSIVE TrimStart(_)
TrimStart(s) ==
    IF Len(s) > 0 /\ SubSeq(s, 1, 1) = " " THEN TrimStart(SubSeq(s, 2, Len(s))) ELSE s
RECURSIVE TrimEnd(_)
TrimEnd(s) ==
    IF Len(s) > 0 /\ SubSeq(s, Len(s), Len(s)) = " "
    THEN TrimEnd(SubSeq(s, 1, Len(s) - 1)) ELSE s
Trim(s) == TrimEnd(TrimStart(s))

\* The text c repeated n times.
RECURSIVE Repeat(_, _)
Repeat(c, n) ==
    IF n = 0 THEN ""
    ELSE LET h == Repeat(c, n \div 2)
         IN IF n % 2 = 1 THEN h \o h \o c ELSE h \o h

(***************************************************************************)
(* The validator (src/utils/validation.ts).  A ValidationResult is         *)
(* [isValid, error, threw]: threw marks an evaluation that would end in a  *)
(* TypeError instead of returning.                                         *)
(***************************************************************************)
MaxDescriptionLength == 500
MaxTagCount == 20
MaxTagLength == 50

Valid == [isValid |-> TRUE, error |-> "", threw |-> FALSE]
Invalid(msg) == [isValid |-> FALSE, error |-> msg, threw |-> FALSE]
Throws == [isValid |-> FALSE, error |-> "TypeError", threw |-> TRUE]

\* validateTaskDescription measuring the description before trimming it.
validateTaskDescriptionUntrimmed(description) ==
    IF TypeOf(description) # "string" THEN Invalid("Task description must be a string")
    ELSE IF Len(Trim(description.v)) = 0 THEN Invalid("Task description cannot be empty")
         ELSE IF Len(description.v) > MaxDescriptionLength
              THEN Invalid("Task description too long (max 500 characters)")
              ELSE Valid

validateTaskDescription(description) ==
    IF TypeOf(description) # "string" THEN Invalid("Task description must be a string")
    ELSE LET trimmed == Trim(description.v)
         IN IF Len(trimmed) = 0 THEN Invalid("Task description cannot be empty")
            ELSE IF Len(trimmed) > MaxDescriptionLength
                 THEN Invalid("Task description too long (max 500 characters)")
                 ELSE Valid

validatePriority(priority) ==
    priority \in {Str("low"), Str("medium"), Str("high"), Str("critical")}

validateDueDate(dueDate) ==
    IF dueDate.t \in {"null", "undefined"} THEN Valid
    ELSE IF TypeOf(dueDate) # "number"
         THEN Invalid("Due date must be a number (Unix timestamp) or null")
         ELSE IF IsNegative(dueDate) THEN Invalid("Due date cannot be negative")
              ELSE IF ~IsFinite(dueDate) THEN Invalid("Due date must be a finite number")
                   ELSE Valid

\* The loop over the tags: the first tag that fails decides.
RECURSIVE validateEachTag(_)
validateEachTag(tags) ==
    IF tags = <<>> THEN Valid
    ELSE LET tag == Head(tags)
         IN IF TypeOf(tag) # "string" THEN Invalid("All tags must be strings")
            ELSE IF Len(Trim(tag.v)) = 0 THEN Invalid("Tags cannot be empty")
                 ELSE IF Len(tag.v) > MaxTagLength
                      THEN Invalid("Tag too long (max 50 characters)")
                      ELSE validateEachTag(Tail(tags))

validateTags(tags) ==
    IF tags.t = "undefined" THEN Valid
    ELSE IF ~IsArray(tags) THEN Invalid("Tags must be an array")
         ELSE IF Len(tags.v) > MaxTagCount THEN Invalid("Too many tags (max 20)")
              ELSE validateEachTag(tags.v)

validateTaskInput(input) ==
    IF ~CanRead(input) THEN Throws
    ELSE LET descResult == validateTaskDescription(Get(input, "description"))
             dueDateResult == validateDueDate(Get(input, "dueDate"))
             tagsResult == validateTags(Get(input, "tags"))
         IN IF ~descResult.isValid THEN descResult
            ELSE IF Get(input, "priority").t # "undefined"
                    /\ ~validatePriority(Get(input, "priority"))
                 THEN Invalid("Invalid priority level")
                 ELSE IF ~dueDateResult.isValid THEN dueDateResult
                      ELSE IF ~tagsResult.isValid THEN tagsResult
                           ELSE Valid

validateTaskId(id) ==
    IF TypeOf(id) # "string" THEN Invalid("Task ID must be a string")
    ELSE IF Len(Trim(id.v)) = 0 THEN Invalid("Task ID cannot be empty")
         ELSE Valid

validateViewType(view) ==
    view \in {Str("all"), Str("today"), Str("upcoming"), Str("priority"), Str("completed")}

\* The checks without Number.isInteger.
validateReorderIndicesAnyNumber(fromIndex, toIndex, arrayLength) ==
    IF TypeOf(fromIndex) # "number" \/ TypeOf(toIndex) # "number"
    THEN Invalid("Indices must be numbers")
    ELSE IF fromIndex.v.n < 0 \/ fromIndex.v.n >= arrayLength
         THEN Invalid("From index out of bounds")
         ELSE IF toIndex.v.n < 0 \/ toIndex.v.n >= arrayLength
              THEN Invalid("To index out of bounds")
              ELSE Valid

validateReorderIndices(fromIndex, toIndex, arrayLength) ==
    IF TypeOf(fromIndex) # "number" \/ TypeOf(toIndex) # "number"
    THEN Invalid("Indices must be numbers")
    ELSE IF ~IsInteger(fromIndex) \/ ~IsInteger(toIndex)
         THEN Invalid("Indices must be integers")
         ELSE IF fromIndex.v.n < 0 \/ fromIndex.v.n >= arrayLength
              THEN Invalid("From index out of bounds")
              ELSE IF toIndex.v.n < 0 \/ toIndex.v.n >= arrayLength
                   THEN Invalid("To index out of bounds")
                   ELSE Valid

\* The loop over a batch payload: the first id that fails decides.
RECURSIVE validateEachId(_)
validateEachId(ids) ==
    IF ids = <<>> THEN Valid
    ELSE LET result == validateTaskId(Head(ids))
         IN IF ~result.isValid THEN result ELSE validateEachId(Tail(ids))

\* The guard `!action.payload || typeof action.payload !== 'object'`
NotAnObject(x) == Falsy(x) \/ TypeOf(x) # "object"

\* The switch of validateAction, for an action whose type is a string.
validatePayload(type, payload) ==
    CASE type = "ADD_TASK" ->
           IF NotAnObject(payload) THEN Invalid("ADD_TASK requires a payload object")
           ELSE validateTaskInput(payload)
      [] type = "UPDATE_TASK" ->
           IF NotAnObject(payload) THEN Invalid("UPDATE_TASK requires a payload object")
           ELSE LET idResult == validateTaskId(Get(payload, "id"))
                IN IF ~idResult.isValid THEN idResult
                   ELSE IF NotAnObject(Get(payload, "updates"))
                        THEN Invalid("UPDATE_TASK requires updates object")
                        ELSE Valid
      [] type \in {"DELETE_TASK", "TOGGLE_COMPLETE", "TOGGLE_TASK_SELECTION"} ->
           validateTaskId(payload)
      [] type = "REORDER_TASKS" ->
           IF NotAnObject(payload) THEN Invalid("REORDER_TASKS requires a payload object")
           ELSE Valid
      [] type = "SET_VIEW" ->
           IF ~validateViewType(payload) THEN Invalid("Invalid view type") ELSE Valid
      [] type = "SET_REORDER_MODE" ->
           IF TypeOf(payload) # "boolean"
           THEN Invalid("SET_REORDER_MODE requires boolean payload") ELSE Valid
      [] type = "SET_EDITING_TASK" ->
           IF payload.t # "null" THEN validateTaskId(payload) ELSE Valid
      [] type = "SET_TAG_FILTER" ->
           IF payload.t # "null" /\ TypeOf(payload) # "string"
           THEN Invalid("SET_TAG_FILTER requires string or null payload") ELSE Valid
      [] type \in {"BATCH_DELETE", "BATCH_COMPLETE"} ->
           IF ~IsArray(payload) THEN Invalid("Batch actions require array payload")
           ELSE validateEachId(payload.v)
      [] type = "SET_THEME" ->
           IF NotAnObject(payload) THEN Invalid("SET_THEME requires theme config object")
           ELSE Valid
      [] type \in {"TOGGLE_MULTI_SELECT", "CLEAR_SELECTIONS"} -> Valid
      [] OTHER -> Invalid("Unknown action type: " \o type)

\* The guard without `!action`: typeof null is 'object'.
actionIsNoObjectByTypeof(action) == TypeOf(action) # "object"

\* `!action || typeof action !== 'object'`
actionIsNoObject(action) == Falsy(action) \/ TypeOf(action) # "object"

validateAction(action) ==
    IF actionIsNoObject(action) THEN Invalid("Action must be an object")
    ELSE IF ~CanRead(action) THEN Throws
         ELSE IF Falsy(Get(action, "type")) \/ TypeOf(Get(action, "type")) # "string"
              THEN Invalid("Action must have a type string")
              ELSE validatePayload(Get(action, "type").v, Get(action, "payload"))

(***************************************************************************)
(* Error feedback (src/utils/errorFeedback.ts).                            *)
(***************************************************************************)
\* String.prototype.includes
Includes(s, sub) ==
    \E i \in 1..(Len(s) - Len(sub) + 1) : SubSeq(s, i, i + Len(sub) - 1) = sub

mapValidationError(error) ==
    IF Includes(error, "empty") THEN "Please enter a valid task description"
    ELSE IF Includes(error, "too long") THEN "Task description is too long"
    ELSE IF Includes(error, "priority") THEN "Please select a valid priority level"
    ELSE IF Includes(error, "due date") THEN "Please select a valid due date"
    ELSE IF Includes(error, "tag") THEN "Please check your tags"
    ELSE IF Includes(error, "not found") \/ Includes(error, "non-existent")
         THEN "Task not found"
         ELSE "Something went wrong. Please try again"

\* The error texts of validation.ts the model's inputs produce, each with its
\* user message, computed once.
validationErrors ==
    {"Unknown error",
     "Task description must be a string", "Task description cannot be empty",
     "Task description too long (max 500 characters)", "Invalid priority level",
     "Due date must be a number (Unix timestamp) or null", "Due date cannot be negative",
     "Due date must be a finite number", "Tags must be an array",
     "Too many tags (max 20)", "All tags must be strings", "Tags cannot be empty",
     "Tag too long (max 50 characters)", "Task ID must be a string",
     "Task ID cannot be empty", "Action must be an object",
     "Action must have a type string", "ADD_TASK requires a payload object",
     "UPDATE_TASK requires a payload object", "UPDATE_TASK requires updates object",
     "REORDER_TASKS requires a payload object", "Invalid view type",
     "SET_REORDER_MODE requires boolean payload",
     "SET_TAG_FILTER requires string or null payload",
     "Batch actions require array payload", "SET_THEME requires theme config object",
     "Unknown action type: FOO", "Unknown action type: RESET"}
userMessages == [error \in validationErrors |-> mapValidationError(error)]

\* The suffix Math.random().toString(36).substr(2, 9) contributes, for the r-th
\* of the outcomes the model distinguishes.
randomSuffix(r) == "r" \o ToString(r)

generateErrorId(now, rnd) == "error-" \o ToString(now) \o "-" \o randomSuffix(rnd)

\* The feedback reportError builds and hands to notifyListeners.
reportError(message, severity, now, rnd) ==
    [message |-> message, severity |-> severity, timestamp |-> now,
     id |-> generateErrorId(now, rnd)]

(***************************************************************************)
(* The listeners of the error feedback.  errorListeners is the module's    *)
(* array of listener functions, a function being its name.  subscriptions  *)
(* lists the calls of subscribeToErrors made, by the listener each was     *)
(* given, and cancelled the subscriptions whose unsubscribe function has   *)
(* been called: the k-th call returned the k-th unsubscribe function.      *)
(* The listener "toast" only shows the feedback, "throws" ends in an       *)
(* exception, and "once" calls the unsubscribe function of its first       *)
(* subscription when it is called.                                         *)
(***************************************************************************)
NoListeners == [errorListeners |-> <<>>, subscriptions |-> <<>>, cancelled |-> {}]

\* errorListeners.push(listener); the closure returned captures listener.
subscribeToErrors(s, listener) ==
    [s EXCEPT !.errorListeners = Append(@, listener),
              !.subscriptions = Append(@, listener)]

\* The function the k-th call of subscribeToErrors returned:
\* const index = errorListeners.indexOf(listener);
\* if (index > -1) errorListeners.splice(index, 1)
unsubscribe(s, k) ==
    LET listener == s.subscriptions[k]
        found == {i \in 1..Len(s.errorListeners) : s.errorListeners[i] = listener}
        index == CHOOSE i \in found : \A j \in found : i <= j
    IN [s EXCEPT !.errorListeners =
                     IF found = {} THEN @
                     ELSE SubSeq(@, 1, index - 1) \o SubSeq(@, index + 1, Len(@)),
                 !.cancelled = @ \cup {k}]

\* errorListeners.forEach(listener => { try { listener(feedback) } catch ... }),
\* from index position on (1-based): forEach reads the length once, visits
\* the indices below it in order and skips an index the array no longer has;
\* an exception of a listener is caught.  The sink after the calls, and the
\* listeners called, in order.
RECURSIVE forEachListener(_, _, _, _)
forEachListener(s, position, length, called) ==
    IF position > length THEN [sink |-> s, called |-> called]
    ELSE IF position > Len(s.errorListeners)
         THEN forEachListener(s, position + 1, length, called)
         ELSE LET listener == s.errorListeners[position]
                  first == CHOOSE k \in 1..Len(s.subscriptions) :
                              /\ s.subscriptions[k] = listener
                              /\ \A j \in 1..(k - 1) : s.subscriptions[j] # listener
                  after == IF listener = "once" THEN unsubscribe(s, first) ELSE s
              IN forEachListener(after, position + 1, length, Append(called, listener))

notifyListeners(s) == forEachListener(s, 1, Len(s.errorListeners), <<>>)

(***************************************************************************)
(* The reducer (appReducer).  The state is [tasks, ui, theme]; a task is a *)
(* function from its property names to values.  A call returns             *)
(*   state  the state returned (the input state when the call throws),     *)
(*   same   whether that is the very object it was given,                  *)
(*   kept   the parts of the input the returned state shares by reference, *)
(*   timers the reportError calls it deferred with setTimeout(..., 0),     *)
(*   published the notifications reportError delivered during the call,    *)
(*   threw  whether it ended in an exception,                              *)
(*   input  the input state as its holders see it after the call.          *)
(***************************************************************************)
generateId(now, rnd) == "task_" \o ToString(now) \o "_" \o randomSuffix(rnd)

defaultTheme == Obj([mode |-> Str("light")])

initialState ==
    [tasks |-> <<>>,
     ui |-> [selectedView |-> Str("all"),
             multiSelectMode |-> FALSE,
             selectedTaskIds |-> {},
             reorderMode |-> Bool(FALSE),
             editingTaskId |-> Null,
             selectedTag |-> Null],
     theme |-> defaultTheme]

Parts == {"tasks", "ui", "selectedTaskIds", "theme"}

\* setTimeout(() => reportError(message, severity, ...), 0)
Deferred(message, severity) == [message |-> message, severity |-> severity]

\* `return state` with no notification deferred.
RejectedSilently(state, message, severity) ==
    [state |-> state, same |-> TRUE, kept |-> Parts,
     timers |-> <<>>, published |-> <<>>, threw |-> FALSE, input |-> state]

\* `return state` after reportError(message, severity) called directly, with
\* no setTimeout around it: the listeners run inside the reducer call.
RejectedSynchronously(state, message, severity) ==
    [state |-> state, same |-> TRUE, kept |-> Parts,
     timers |-> <<>>, published |-> <<Deferred(message, severity)>>,
     threw |-> FALSE, input |-> state]

\* `return state`, with the notification deferred.
Rejected(state, message, severity) ==
    [state |-> state, same |-> TRUE, kept |-> Parts,
     timers |-> <<Deferred(message, severity)>>, published |-> <<>>,
     threw |-> FALSE, input |-> state]

\* `return { ...state, ... }`: a new state object that keeps the parts in kept;
\* input is the input state as it is after the call.
Returned(input, newState, kept) ==
    [state |-> newState, same |-> FALSE, kept |-> kept,
     timers |-> <<>>, published |-> <<>>, threw |-> FALSE, input |-> input]

Thrown(state) ==
    [state |-> state, same |-> TRUE, kept |-> Parts,
     timers |-> <<>>, published |-> <<>>, threw |-> TRUE, input |-> state]

\* a || b and a ?? b
OrElse(a, b) == IF Falsy(a) THEN b ELSE a
Coalesce(a, b) == IF a.t \in {"null", "undefined"} THEN b ELSE a

\* The own properties an object spread { ...x } copies.
OwnProps(x) ==
    IF x.t = "object" THEN x.v
    ELSE IF x.t = "array"
         THEN [k \in {ToString(i - 1) : i \in 1..Len(x.v)} |->
                 x.v[CHOOSE i \in 1..Len(x.v) : ToString(i - 1) = k]]
         ELSE <<>>

\* state.tasks.some(task => task.id === id)
taskExists(state, id) == \E i \in 1..Len(state.tasks) : state.tasks[i].id = id

\* Array.prototype.map over the task list (filter is SelectSeq)
MapTasks(tasks, f(_)) == [i \in 1..Len(tasks) |-> f(tasks[i])]

\* `const newTasks = state.tasks`: the local is the input's own array.
AliasArray(items) == [ref |-> "state.tasks", items |-> items]

\* An array or a Set held in a local variable: ref names the object it is
\* ("fresh" for one allocated by the call), items its content.  [...array] and
\* new Set(set) allocate.
SpreadArray(items) == [ref |-> "fresh", items |-> items]
CopySet(items) == [ref |-> "fresh", items |-> items]

\* array.splice(index, 1): the array without the element, and the element.
\* index is 0-based.
SpliceOut(array, index) ==
    [array |-> [array EXCEPT !.items =
                   SubSeq(array.items, 1, index) \o
                   SubSeq(array.items, index + 2, Len(array.items))],
     removed |-> array.items[index + 1]]

\* array.splice(index, 0, item)
SpliceIn(array, index, item) ==
    [array EXCEPT !.items =
        SubSeq(array.items, 1, index) \o <<item>> \o
        SubSeq(array.items, index + 1, Len(array.items))]

\* if (set.has(id)) set.delete(id) else set.add(id)
ToggleMember(set, id) ==
    [set EXCEPT !.items = IF id \in set.items THEN set.items \ {id}
                          ELSE set.items \cup {id}]

\* What the holders of the input state see after the writes to a local array
\* or Set: the writes themselves when the local is the input's own object.
TasksAfter(state, local) ==
    [state EXCEPT !.tasks = IF local.ref = "state.tasks" THEN local.items ELSE @]
SelectionAfter(state, local) ==
    [state EXCEPT !.ui.selectedTaskIds =
        IF local.ref = "state.ui.selectedTaskIds" THEN local.items ELSE @]

reduceADD_TASK(state, payload, now, rnd) ==
    IF ~CanRead(payload) \/ Get(payload, "description").t # "string" THEN Thrown(state)
    ELSE LET newTask ==
                 [id |-> Str(generateId(now, rnd)),
                  description |-> Str(Trim(Get(payload, "description").v)),
                  completed |-> Bool(FALSE),
                  createdAt |-> Num(now),
                  priority |-> OrElse(Get(payload, "priority"), Str("medium")),
                  dueDate |-> Coalesce(Get(payload, "dueDate"), Null),
                  tags |-> OrElse(Get(payload, "tags"), Arr(<<>>))]
         IN Returned(state, [state EXCEPT !.tasks = Append(@, newTask)],
                     {"ui", "selectedTaskIds", "theme"})

\* { ...task, ...updates }
mergeUpdates(task, updates) == OwnProps(updates) @@ task

reduceUPDATE_TASK(state, payload) ==
    IF ~CanRead(payload) THEN Thrown(state)
    ELSE IF ~taskExists(state, Get(payload, "id"))
         THEN Rejected(state, "Task not found", "warning")
         ELSE LET update(task) ==
                      IF task.id = Get(payload, "id")
                      THEN mergeUpdates(task, Get(payload, "updates")) ELSE task
              IN Returned(state, [state EXCEPT !.tasks = MapTasks(@, update)],
                          {"ui", "selectedTaskIds", "theme"})

reduceDELETE_TASK(state, payload) ==
    IF ~taskExists(state, payload) THEN Rejected(state, "Task not found", "warning")
    ELSE LET keep(task) == task.id # payload
         IN Returned(state,
                [state EXCEPT
                   !.tasks = SelectSeq(@, keep),
                   !.ui.selectedTaskIds = {id \in @ : id # payload},
                   !.ui.editingTaskId = IF @ = payload THEN Null ELSE @],
                {"theme"})

reduceTOGGLE_COMPLETE(state, payload) ==
    IF ~taskExists(state, payload) THEN Rejected(state, "Task not found", "warning")
    ELSE LET toggle(task) ==
                 IF task.id = payload
                 THEN [task EXCEPT !.completed = Bool(Falsy(task.completed))] ELSE task
         IN Returned(state, [state EXCEPT !.tasks = MapTasks(@, toggle)],
                     {"ui", "selectedTaskIds", "theme"})

\* REORDER_TASKS exchanging the two tasks instead of moving one.
reduceREORDER_TASKSSwap(state, payload) ==
    IF ~CanRead(payload) THEN Thrown(state)
    ELSE LET fromIndex == Get(payload, "fromIndex")
             toIndex == Get(payload, "toIndex")
             indicesValidation ==
                 validateReorderIndices(fromIndex, toIndex, Len(state.tasks))
             swapped == [i \in 1..Len(state.tasks) |->
                            IF i = fromIndex.v.n + 1 THEN state.tasks[toIndex.v.n + 1]
                            ELSE IF i = toIndex.v.n + 1 THEN state.tasks[fromIndex.v.n + 1]
                                 ELSE state.tasks[i]]
         IN IF ~indicesValidation.isValid
            THEN Rejected(state, "Cannot reorder tasks", "warning")
            ELSE Returned(state, [state EXCEPT !.tasks = swapped],
                          {"ui", "selectedTaskIds", "theme"})

reduceREORDER_TASKS(state, payload) ==
    IF ~CanRead(payload) THEN Thrown(state)
    ELSE LET fromIndex == Get(payload, "fromIndex")
             toIndex == Get(payload, "toIndex")
             indicesValidation ==
                 validateReorderIndices(fromIndex, toIndex, Len(state.tasks))
         IN IF ~indicesValidation.isValid
            THEN Rejected(state, "Cannot reorder tasks", "warning")
            ELSE LET spliced == SpliceOut(SpreadArray(state.tasks), fromIndex.v.n)
                     newTasks == SpliceIn(spliced.array, toIndex.v.n, spliced.removed)
                 IN Returned(TasksAfter(state, newTasks),
                             [state EXCEPT !.tasks = newTasks.items],
                             {"ui", "selectedTaskIds", "theme"})

\* SET_VIEW with `tasks: [...state.tasks]` added to the returned object.
reduceSET_VIEWCopyTasks(state, payload) ==
    Returned(state, [state EXCEPT !.ui.selectedView = payload],
             {"selectedTaskIds", "theme"})

reduceSET_VIEW(state, payload) ==
    Returned(state, [state EXCEPT !.ui.selectedView = payload],
             {"tasks", "selectedTaskIds", "theme"})

reduceTOGGLE_MULTI_SELECT(state) ==
    Returned(state,
        [state EXCEPT
           !.ui.multiSelectMode = ~state.ui.multiSelectMode,
           !.ui.selectedTaskIds = IF state.ui.multiSelectMode THEN {} ELSE @],
        IF state.ui.multiSelectMode THEN {"tasks", "theme"}
        ELSE {"tasks", "selectedTaskIds", "theme"})

\* TOGGLE_TASK_SELECTION that only ever adds: newSelectedIds.add(payload)
\* without the test newSelectedIds.has(payload).
reduceTOGGLE_TASK_SELECTIONAddOnly(state, payload) ==
    IF ~taskExists(state, payload) THEN Rejected(state, "Task not found", "warning")
    ELSE Returned(state,
                  [state EXCEPT !.ui.selectedTaskIds = @ \cup {payload}],
                  {"tasks", "theme"})

reduceTOGGLE_TASK_SELECTION(state, payload) ==
    IF ~taskExists(state, payload) THEN Rejected(state, "Task not found", "warning")
    ELSE LET newSelectedIds == ToggleMember(CopySet(state.ui.selectedTaskIds), payload)
         IN Returned(SelectionAfter(state, newSelectedIds),
                     [state EXCEPT !.ui.selectedTaskIds = newSelectedIds.items],
                     {"tasks", "theme"})

reduceCLEAR_SELECTIONS(state) ==
    Returned(state, [state EXCEPT !.ui.selectedTaskIds = {}], {"tasks", "theme"})

reduceSET_REORDER_MODE(state, payload) ==
    Returned(state, [state EXCEPT !.ui.reorderMode = payload],
             {"tasks", "selectedTaskIds", "theme"})

reduceSET_EDITING_TASK(state, payload) ==
    IF payload.t # "null" /\ ~taskExists(state, payload)
    THEN Rejected(state, "Task not found", "warning")
    ELSE Returned(state, [state EXCEPT !.ui.editingTaskId = payload],
                  {"tasks", "selectedTaskIds", "theme"})

reduceSET_THEME(state, payload) ==
    Returned(state, [state EXCEPT !.theme = payload], {"tasks", "ui", "selectedTaskIds"})

\* The ids of the payload that are ids of tasks: payload.filter(id => existingIds.has(id))
validIds(state, payload) ==
    LET existingIds == {state.tasks[i].id : i \in 1..Len(state.tasks)}
        has(id) == id \in existingIds
    IN SelectSeq(payload.v, has)

\* BATCH_DELETE without the early return for an empty validIdsToDelete.
reduceBATCH_DELETEAlways(state, payload) ==
    IF ~IsArray(payload) THEN Thrown(state)
    ELSE LET validIdsToDelete == validIds(state, payload)
             idsToDelete == {validIdsToDelete[i] : i \in 1..Len(validIdsToDelete)}
             keep(task) == task.id \notin idsToDelete
         IN Returned(state,
                [state EXCEPT
                   !.tasks = SelectSeq(@, keep),
                   !.ui.selectedTaskIds = {},
                   !.ui.multiSelectMode = FALSE],
                {"theme"})

reduceBATCH_DELETE(state, payload) ==
    IF ~IsArray(payload) THEN Thrown(state)
    ELSE LET validIdsToDelete == validIds(state, payload)
             idsToDelete == {validIdsToDelete[i] : i \in 1..Len(validIdsToDelete)}
             keep(task) == task.id \notin idsToDelete
         IN IF Len(validIdsToDelete) = 0 THEN Rejected(state, "No tasks to delete", "info")
            ELSE Returned(state,
                     [state EXCEPT
                        !.tasks = SelectSeq(@, keep),
                        !.ui.selectedTaskIds = {},
                        !.ui.multiSelectMode = FALSE],
                     {"theme"})

\* BATCH_COMPLETE that leaves ui as it is.
reduceBATCH_COMPLETEKeepUi(state, payload) ==
    IF ~IsArray(payload) THEN Thrown(state)
    ELSE LET validIdsToComplete == validIds(state, payload)
             idsToComplete == {validIdsToComplete[i] : i \in 1..Len(validIdsToComplete)}
             complete(task) ==
                 IF task.id \in idsToComplete
                 THEN [task EXCEPT !.completed = Bool(TRUE)] ELSE task
         IN IF Len(validIdsToComplete) = 0
            THEN Rejected(state, "No tasks to complete", "info")
            ELSE Returned(state, [state EXCEPT !.tasks = MapTasks(@, complete)],
                          {"ui", "selectedTaskIds", "theme"})

reduceBATCH_COMPLETE(state, payload) ==
    IF ~IsArray(payload) THEN Thrown(state)
    ELSE LET validIdsToComplete == validIds(state, payload)
             idsToComplete == {validIdsToComplete[i] : i \in 1..Len(validIdsToComplete)}
             complete(task) ==
                 IF task.id \in idsToComplete
                 THEN [task EXCEPT !.completed = Bool(TRUE)] ELSE task
         IN IF Len(validIdsToComplete) = 0
            THEN Rejected(state, "No tasks to complete", "info")
            ELSE Returned(state,
                     [state EXCEPT
                        !.tasks = MapTasks(@, complete),
                        !.ui.selectedTaskIds = {},
                        !.ui.multiSelectMode = FALSE],
                     {"theme"})

reduceSET_TAG_FILTER(state, payload) ==
    Returned(state, [state EXCEPT !.ui.selectedTag = payload],
             {"tasks", "selectedTaskIds", "theme"})

\* `default: return state`
reduceDefault(state) ==
    [state |-> state, same |-> TRUE, kept |-> Parts,
     timers |-> <<>>, published |-> <<>>, threw |-> FALSE, input |-> state]

\* The switch of appReducer, for an action that passed validation.
reduceValid(state, action, now, rnd) ==
    IF ~CanRead(action) \/ Get(action, "type").t # "string" THEN Thrown(state)
    ELSE LET type == Get(action, "type").v
             payload == Get(action, "payload")
         IN CASE type = "ADD_TASK" -> reduceADD_TASK(state, payload, now, rnd)
              [] type = "UPDATE_TASK" -> reduceUPDATE_TASK(state, payload)
              [] type = "DELETE_TASK" -> reduceDELETE_TASK(state, payload)
              [] type = "TOGGLE_COMPLETE" -> reduceTOGGLE_COMPLETE(state, payload)
              [] type = "REORDER_TASKS" -> reduceREORDER_TASKS(state, payload)
              [] type = "SET_VIEW" -> reduceSET_VIEW(state, payload)
              [] type = "TOGGLE_MULTI_SELECT" -> reduceTOGGLE_MULTI_SELECT(state)
              [] type = "TOGGLE_TASK_SELECTION" -> reduceTOGGLE_TASK_SELECTION(state, payload)
              [] type = "CLEAR_SELECTIONS" -> reduceCLEAR_SELECTIONS(state)
              [] type = "SET_REORDER_MODE" -> reduceSET_REORDER_MODE(state, payload)
              [] type = "SET_EDITING_TASK" -> reduceSET_EDITING_TASK(state, payload)
              [] type = "SET_THEME" -> reduceSET_THEME(state, payload)
              [] type = "BATCH_DELETE" -> reduceBATCH_DELETE(state, payload)
              [] type = "BATCH_COMPLETE" -> reduceBATCH_COMPLETE(state, payload)
              [] type = "SET_TAG_FILTER" -> reduceSET_TAG_FILTER(state, payload)
              [] OTHER -> reduceDefault(state)

\* The validation branch ending in `return { ...state }`.
reduceInvalidCopy(state, validationResult) ==
    [Rejected(state, "Something went wrong. Please try again", "error")
        EXCEPT !.same = FALSE]

\* The branch `if (!validationResult.isValid)`.
reduceInvalid(state, validationResult) ==
    LET error == IF validationResult.error = "" THEN "Unknown error"
                 ELSE validationResult.error
        userMessage == IF error \in validationErrors THEN userMessages[error]
                       ELSE mapValidationError(error)
    IN Rejected(state, userMessage, "error")

appReducer(state, action, now, rnd) ==
    LET validationResult == validateAction(action)
    IN IF validationResult.threw THEN Thrown(state)
       ELSE IF ~validationResult.isValid THEN reduceInvalid(state, validationResult)
            ELSE reduceValid(state, action, now, rnd)

(***************************************************************************)
(* The selectors (src/state/selectors.ts).  An array a selector reads or   *)
(* returns is [t, v, ref]: ref names the array object, so that two arrays  *)
(* of equal content are two objects.  A task object is never written after *)
(* it is built (the reducer replaces it), so equal tasks stand for one     *)
(* object.  A Date is its time value; the local zone is UTC and a day has  *)
(* DayLength clock units.                                                  *)
(***************************************************************************)
NewArray(ref, items) == [t |-> "array", v |-> items, ref |-> ref]

\* An equality function that takes any two inputs for equal.
alwaysEqualFn(prev, next) == TRUE

\* prev === next
defaultEqualityFn(prev, next) == prev = next /\ prev # NaN

\* An equality of arrays that compares the lengths and not the elements.
arrayEqualityFnLengthOnly(prev, next) ==
    IF defaultEqualityFn(prev, next) THEN TRUE
    ELSE Len(prev.v) = Len(next.v)

arrayEqualityFn(prev, next) ==
    IF defaultEqualityFn(prev, next) THEN TRUE
    ELSE IF Len(prev.v) # Len(next.v) THEN FALSE
         ELSE \A i \in 1..Len(prev.v) : defaultEqualityFn(prev.v[i], next.v[i])

\* let lastInput; let lastResult; let hasRun = false
NeverRun == [lastInput |-> Undefined, lastResult |-> Undefined, hasRun |-> FALSE]

\* One call of the selector createSelector returns, for the input
\* inputSelector(state) it was called with: the closure after the call, the
\* value returned, and whether resultFn ran.  inputsEqual stands for
\* equalityFn(lastInput, currentInput) and currentResult for
\* resultFn(currentInput); each is evaluated only where the code calls it.
createSelector(closure, currentInput, inputsEqual, currentResult) ==
    IF /\ closure.hasRun
       /\ closure.lastInput # Undefined
       /\ inputsEqual
    THEN [closure |-> closure, result |-> closure.lastResult, computed |-> FALSE]
    ELSE [closure |-> [lastInput |-> currentInput, lastResult |-> currentResult,
                       hasRun |-> TRUE],
          result |-> currentResult, computed |-> TRUE]

\* One call of the selector createSelectorMulti returns; currentInputs is the
\* array inputSelectors.map(selector => selector(state)) built for the call
\* and currentResult stands for resultFn(...currentInputs).
createSelectorMulti(closure, currentInputs, currentResult) ==
    IF closure.hasRun /\ arrayEqualityFn(closure.lastInputs, currentInputs)
    THEN [closure |-> closure, result |-> closure.lastResult, computed |-> FALSE]
    ELSE [closure |-> [lastInputs |-> currentInputs, lastResult |-> currentResult,
                       hasRun |-> TRUE],
          result |-> currentResult, computed |-> TRUE]

\* new Date(value) for a finite number value >= 0: its time value, the
\* number without its fraction.
NewDate(value) == value.v.n

\* date.setHours(0, 0, 0, 0)
startOfDay(date) == date - (date % DayLength)

\* date.setDate(date.getDate() + days)
addDays(date, days) == date + days * DayLength

\* The smart views.  now is what new Date() reads when resultFn runs, ref the
\* array filter allocates.
selectTodayTasks(closure, state, now, ref) ==
    LET tasks == state.tasks
        today == startOfDay(now)
        todayEnd == addDays(today, 1)
    IN createSelector(closure, tasks, arrayEqualityFn(closure.lastInput, tasks),
           NewArray(ref, SelectSeq(tasks.v, LAMBDA task :
               /\ ~(Falsy(task.dueDate) \/ ~Falsy(task.completed))
               /\ NewDate(task.dueDate) < todayEnd)))

selectUpcomingTasks(closure, state, now, ref) ==
    LET tasks == state.tasks
        today == startOfDay(now)
        tomorrow == addDays(today, 1)
        weekFromNow == addDays(today, 7)
    IN createSelector(closure, tasks, arrayEqualityFn(closure.lastInput, tasks),
           NewArray(ref, SelectSeq(tasks.v, LAMBDA task :
               /\ ~(Falsy(task.dueDate) \/ ~Falsy(task.completed))
               /\ NewDate(task.dueDate) >= tomorrow
               /\ NewDate(task.dueDate) <= weekFromNow)))

selectHighPriorityTasks(closure, state, ref) ==
    LET tasks == state.tasks
    IN createSelector(closure, tasks, arrayEqualityFn(closure.lastInput, tasks),
           NewArray(ref, SelectSeq(tasks.v, LAMBDA task :
               /\ Falsy(task.completed)
               /\ (task.priority = Str("high") \/ task.priority = Str("critical")))))

selectCompletedTasks(closure, state, ref) ==
    LET tasks == state.tasks
    IN createSelector(closure, tasks, arrayEqualityFn(closure.lastInput, tasks),
           NewArray(ref, SelectSeq(tasks.v, LAMBDA task : ~Falsy(task.completed))))

selectAllTasks(closure, state) ==
    LET tasks == state.tasks
    IN createSelector(closure, tasks, arrayEqualityFn(closure.lastInput, tasks), tasks)

\* The closures of the module's memoized selectors and of three selectors
\* built the way the unit tests build them, before any call.
NoSelectorRun ==
    [selectTodayTasks |-> NeverRun, selectUpcomingTasks |-> NeverRun,
     selectHighPriorityTasks |-> NeverRun, selectCompletedTasks |-> NeverRun,
     selectAllTasks |-> NeverRun,
     wrapSelector |-> NeverRun, lengthSelector |-> NeverRun,
     pairSelector |-> [lastInputs |-> NewArray("lastInputs", <<>>),
                       lastResult |-> Undefined, hasRun |-> FALSE]]

\* One call of a memoized smart view, by name.
selectView(name, closures, state, now, ref) ==
    CASE name = "selectTodayTasks" -> selectTodayTasks(closures[name], state, now, ref)
      [] name = "selectUpcomingTasks" ->
           selectUpcomingTasks(closures[name], state, now, ref)
      [] name = "selectHighPriorityTasks" ->
           selectHighPriorityTasks(closures[name], state, ref)
      [] name = "selectCompletedTasks" -> selectCompletedTasks(closures[name], state, ref)
      [] name = "selectAllTasks" -> selectAllTasks(closures[name], state)

\* selectTasksByView: the closures after the call and the array returned.
selectTasksByView(closures, state, now, ref) ==
    LET view == state.ui.selectedView
        selectedTag == state.ui.selectedTag
        name == CASE view = Str("today") -> "selectTodayTasks"
                  [] view = Str("upcoming") -> "selectUpcomingTasks"
                  [] view = Str("priority") -> "selectHighPriorityTasks"
                  [] view = Str("completed") -> "selectCompletedTasks"
                  [] OTHER -> "selectAllTasks"
        called == selectView(name, closures, state, now, ref)
        tasks == called.result
    IN [closures |-> [closures EXCEPT ![name] = called.closure],
        result |->
            IF ~Falsy(selectedTag)
            THEN NewArray(ref \o "'", SelectSeq(tasks.v, LAMBDA task :
                     \E i \in 1..Len(task.tags.v) : task.tags.v[i] = selectedTag))
            ELSE tasks]

\* The order Array.prototype.sort puts two strings in when it is given no
\* comparator: by UTF-16 code units, a proper prefix first.
CodeUnitLess(a, b) ==
    LET codeUnit == ("A" :> 65) @@ ("B" :> 66) @@ ("a" :> 97) @@ ("b" :> 98) @@
                    ("x" :> 120)
        RECURSIVE less(_, _)
        less(s, u) ==
            IF s = "" THEN u # ""
            ELSE IF u = "" THEN FALSE
                 ELSE IF SubSeq(s, 1, 1) = SubSeq(u, 1, 1)
                      THEN less(SubSeq(s, 2, Len(s)), SubSeq(u, 2, Len(u)))
                      ELSE codeUnit[SubSeq(s, 1, 1)] < codeUnit[SubSeq(u, 1, 1)]
    IN less(a.v, b.v)

\* Array.from(tagSet), without the sort: the tags in the order of their first
\* occurrence.
selectAllTagsUnsorted(state, ref) ==
    LET RECURSIVE addAll(_, _)
        addAll(tagSet, tags) ==
            IF tags = <<>> THEN tagSet
            ELSE addAll(IF \E i \in 1..Len(tagSet) : tagSet[i] = Head(tags)
                        THEN tagSet ELSE Append(tagSet, Head(tags)),
                        Tail(tags))
        RECURSIVE forEach(_, _)
        forEach(tagSet, tasks) ==
            IF tasks = <<>> THEN tagSet
            ELSE forEach(addAll(tagSet, Head(tasks).tags.v), Tail(tasks))
    IN NewArray(ref, forEach(<<>>, state.tasks.v))

\* selectAllTags: tagSet holds the tags in the order they were first added.
selectAllTags(state, ref) ==
    LET RECURSIVE addAll(_, _)
        addAll(tagSet, tags) ==
            IF tags = <<>> THEN tagSet
            ELSE addAll(IF \E i \in 1..Len(tagSet) : tagSet[i] = Head(tags)
                        THEN tagSet ELSE Append(tagSet, Head(tags)),
                        Tail(tags))
        RECURSIVE forEach(_, _)
        forEach(tagSet, tasks) ==
            IF tasks = <<>> THEN tagSet
            ELSE forEach(addAll(tagSet, Head(tasks).tags.v), Tail(tasks))
    IN NewArray(ref, SortSeq(forEach(<<>>, state.tasks.v), CodeUnitLess))

(***************************************************************************)
(* The queued dispatch of StateProvider (components/TaskList.tsx).  A      *)
(* provider is the record of its refs and of its surroundings: dev is      *)
(* __DEV__, raf whether requestAnimationFrame is defined, scheduled the    *)
(* processBatch callbacks waiting for a frame or a timer, applied the      *)
(* actions handed to baseDispatch, which React passes to the reducer in    *)
(* that order.  submitted and last record the calls made: the actions      *)
(* given to dispatch, and the call that returned last.                     *)
(***************************************************************************)
batchSize == 5

Mounted(dev, raf) ==
    [dev |-> dev, raf |-> raf, actionQueue |-> <<>>, isProcessing |-> FALSE,
     scheduled |-> <<>>, applied |-> <<>>, submitted |-> <<>>,
     last |-> [op |-> "mount", wasProcessing |-> FALSE]]

\* while (queue.length > 0 && processed < limit) {
\*   const action = queue.shift(); if (action) { baseDispatch(action); processed++ } }
RECURSIVE drain(_, _)
drain(p, limit) ==
    IF p.actionQueue = <<>> \/ limit = 0 THEN p
    ELSE LET action == Head(p.actionQueue)
             shifted == [p EXCEPT !.actionQueue = Tail(@)]
         IN IF Falsy(action) THEN drain(shifted, limit)
            ELSE drain([shifted EXCEPT !.applied = Append(@, action)], limit - 1)

processBatch(p) ==
    LET drained == drain(p, batchSize)
    IN IF drained.actionQueue # <<>>
       THEN [drained EXCEPT !.scheduled = Append(@, IF p.raf THEN "frame" ELSE "timer")]
       ELSE [drained EXCEPT !.isProcessing = FALSE]

\* processQueue without the test of isProcessingRef.current in its guard.
processQueueUnguarded(p) ==
    IF p.actionQueue = <<>> THEN p
    ELSE LET processing == [p EXCEPT !.isProcessing = TRUE]
         IN IF p.raf /\ ~p.dev
            THEN [processing EXCEPT !.scheduled = Append(@, "frame")]
            ELSE [drain(processing, Len(p.actionQueue)) EXCEPT !.isProcessing = FALSE]

\* The loop of the synchronous branch has no limit: it ends with the queue.
processQueue(p) ==
    IF p.isProcessing \/ p.actionQueue = <<>> THEN p
    ELSE LET processing == [p EXCEPT !.isProcessing = TRUE]
         IN IF p.raf /\ ~p.dev
            THEN [processing EXCEPT !.scheduled = Append(@, "frame")]
            ELSE [drain(processing, Len(p.actionQueue)) EXCEPT !.isProcessing = FALSE]

\* actionQueueRef.current.unshift(action) in place of push.
dispatchUnshift(p, action) ==
    processQueue([p EXCEPT !.actionQueue = <<action>> \o @])

dispatch(p, action) ==
    processQueue([p EXCEPT !.actionQueue = Append(@, action)])

(***************************************************************************)
(* The state machine.  The store calls the reducer with its state and an   *)
(* action (Call) and then takes the state the call returned (Commit);    *)
(* a deferred callback runs reportError, which publishes a feedback        *)
(* (TimerFire, TimerDone).  Each of them runs to completion: nothing else  *)
(* happens while running is not Idle.                                      *)
(***************************************************************************)
VARIABLES
    state,    \* the AppState the store holds
    clock,    \* Date.now()
    timers,   \* the deferred reportError calls, in the order they will run
    steps,    \* reducer calls committed so far
    running,  \* what is running: Idle, a reducer call that has returned, or a
              \* deferred callback that has published
    memo,     \* the closure of each memoized selector: its cache
    provider, \* the refs of a mounted StateProvider, and what went through it
    sink      \* the listeners of the error feedback module, and the
              \* subscriptions made and cancelled

vars == <<state, clock, timers, steps, running, memo, provider, sink>>

Idle == [kind |-> "idle"]
\* appReducer(state, action) has returned result; state is still its input.
ReducerCall(action, result) == [kind |-> "reducer", action |-> action, result |-> result]
\* reportError has handed feedback to the listeners.
TimerCall(feedback) == [kind |-> "timer", feedback |-> feedback]

Init ==
    /\ state = initialState
    /\ clock = 0
    /\ timers = <<>>
    /\ steps = 0
    /\ running = Idle
    /\ memo = NoSelectorRun
    /\ provider = Mounted(TRUE, FALSE)
    /\ sink = NoListeners

Action(type, payload) == Obj([type |-> Str(type), payload |-> payload])
ActionNoPayload(type) == Obj([type |-> Str(type)])

(* The inputs the model draws from. *)
TaskIds(s) == {s.tasks[i].id : i \in 1..Len(s.tasks)}
\* An id no ADD_TASK generates.
GhostId == Str("ghost")
IdInputs(s) == TaskIds(s) \cup {GhostId}
BadIds == {Str(""), Str("  "), Num(1), Undefined}

ValidTaskInputs ==
    {Obj([description |-> Str(" a ")]),
     Obj([description |-> Str("b"), priority |-> Str("high"), dueDate |-> Num(5),
          tags |-> Arr(<<Str("x")>>)])}

InvalidTaskInputs ==
    {Null, Undefined, Str("a"), Arr(<<>>),
     Obj([description |-> Str("")]),
     Obj([description |-> Str("   ")]),
     Obj([description |-> Num(3)]),
     Obj([description |-> Str(Repeat("x", MaxDescriptionLength + 1))]),
     Obj([description |-> Str("a"), priority |-> Str("urgent")]),
     Obj([description |-> Str("a"), priority |-> Null]),
     Obj([description |-> Str("a"), dueDate |-> Num(-1)]),
     Obj([description |-> Str("a"), dueDate |-> NaN]),
     Obj([description |-> Str("a"), dueDate |-> Infinity]),
     Obj([description |-> Str("a"), dueDate |-> Str("5")]),
     Obj([description |-> Str("a"), tags |-> Str("x")]),
     Obj([description |-> Str("a"), tags |-> Null]),
     Obj([description |-> Str("a"), tags |-> Arr(<<Str("x"), Str(" ")>>)]),
     Obj([description |-> Str("a"), tags |-> Arr(<<Num(1)>>)]),
     Obj([description |-> Str("a"), tags |-> Arr([i \in 1..(MaxTagCount + 1) |-> Str("x")])]),
     Obj([description |-> Str("a"), tags |-> Arr(<<Str(Repeat("x", MaxTagLength + 1))>>)])}

\* The updates of an UPDATE_TASK: objects, and values that are no object.
ObjectUpdates(s) ==
    {Obj([description |-> Str("c")]), Obj([description |-> Str("  ")]), Arr(<<>>),
     Obj([completed |-> Str("yes")])}
    \cup {Obj([id |-> id]) : id \in IdInputs(s)}
NoObjectUpdates == {Null, Undefined, Str("x")}

UpdatePayloads(s) ==
    {Obj([id |-> id, updates |-> u]) : id \in IdInputs(s), u \in ObjectUpdates(s)}
    \cup {Obj([id |-> GhostId, updates |-> u]) : u \in NoObjectUpdates}
    \cup {Obj([id |-> id, updates |-> Obj([description |-> Str("c")])]) : id \in BadIds}
    \cup {Null, Undefined, Str("x")}

\* Indices in range, and one step out of range on either side.
IndexPairs ==
    {<<f, t>> : f \in 0..(MaxTasks - 1), t \in 0..(MaxTasks - 1)}
    \cup {<<0 - 1, 0>>, <<0, 0 - 1>>, <<MaxTasks, 0>>, <<0, MaxTasks>>}
ReorderPayloads ==
    {Obj([fromIndex |-> Num(p[1]), toIndex |-> Num(p[2])]) : p \in IndexPairs}
    \cup {Obj([fromIndex |-> Frac(0), toIndex |-> Num(0)]),
          Obj([fromIndex |-> Num(0), toIndex |-> Str("1")]),
          Obj([fromIndex |-> NaN, toIndex |-> Num(0)]),
          Obj([fromIndex |-> Num(0)]),
          Obj(<<>>), Arr(<<>>), Null, Undefined, Num(0)}

\* The arrays of ids, each id at most once and in one fixed order, and one
\* array that names an id twice.
RECURSIVE SubArrays(_)
SubArrays(ids) ==
    IF ids = {} THEN {<<>>}
    ELSE LET id == CHOOSE x \in ids : TRUE
             rest == SubArrays(ids \ {id})
         IN rest \cup {<<id>> \o a : a \in rest}

BatchPayloads(s) ==
    {Arr(a) : a \in SubArrays(IdInputs(s))}
    \cup {Arr(<<id, id>>) : id \in TaskIds(s)}
    \cup {Arr(<<id, Str("")>>) : id \in TaskIds(s)}
    \cup {Arr(<<Num(1)>>), Null, Undefined, GhostId, Obj(<<>>)}

ThemeInputs == {Obj([mode |-> Str("dark")]), Obj([mode |-> Str("light")]),
                Null, Undefined, Str("dark")}

\* Values that are no action of the enumerated set.
MalformedActions ==
    {Null, Undefined, Num(7), Str("ADD_TASK"), Bool(TRUE), Arr(<<>>), Obj(<<>>),
     Obj([type |-> Num(5)]), Obj([type |-> Str("")]), Obj([type |-> Null]),
     Obj([type |-> Str("FOO")]),
     Obj([type |-> Str("RESET"), payload |-> Arr(<<>>)])}

\* The store calls the reducer.
Call(action, rnd) ==
    LET result == appReducer(state, action, clock, rnd)
    IN /\ running = Idle
       /\ steps < MaxSteps
       /\ Len(result.state.tasks) <= MaxTasks
       /\ Len(timers) < MaxTimers
       /\ running' = ReducerCall(action, result)
       /\ UNCHANGED <<state, clock, timers, steps, memo, provider, sink>>

\* The store takes the state the call returned; the callbacks the call deferred
\* join the timer queue.
Commit ==
    /\ running.kind = "reducer"
    /\ state' = running.result.state
    /\ timers' = timers \o running.result.timers
    /\ steps' = steps + 1
    /\ running' = Idle
    /\ UNCHANGED <<clock, memo, provider, sink>>

\* The actions of each type the model submits: well-formed ones, and ones
\* whose payload is malformed or names no task.
IdPayloads(s) == IdInputs(s) \cup BadIds \cup {Null}

AddTask ==
    \E p \in ValidTaskInputs \cup InvalidTaskInputs, rnd \in 1..NumRandom :
        Call(Action("ADD_TASK", p), rnd)
UpdateTask == \E p \in UpdatePayloads(state) : Call(Action("UPDATE_TASK", p), 1)
DeleteTask == \E p \in IdPayloads(state) : Call(Action("DELETE_TASK", p), 1)
ToggleComplete == \E p \in IdPayloads(state) : Call(Action("TOGGLE_COMPLETE", p), 1)
ReorderTasks == \E p \in ReorderPayloads : Call(Action("REORDER_TASKS", p), 1)
SetView ==
    \E p \in {Str("today"), Str("all"), Str("week"), Null, Undefined} :
        Call(Action("SET_VIEW", p), 1)
ToggleMultiSelect == Call(ActionNoPayload("TOGGLE_MULTI_SELECT"), 1)
ToggleTaskSelection ==
    \E p \in IdPayloads(state) : Call(Action("TOGGLE_TASK_SELECTION", p), 1)
ClearSelections == Call(ActionNoPayload("CLEAR_SELECTIONS"), 1)
SetReorderMode ==
    \E p \in {Bool(TRUE), Bool(FALSE), Str("true"), Num(1), Undefined} :
        Call(Action("SET_REORDER_MODE", p), 1)
SetEditingTask == \E p \in IdPayloads(state) : Call(Action("SET_EDITING_TASK", p), 1)
SetTheme == \E p \in ThemeInputs : Call(Action("SET_THEME", p), 1)
BatchDelete == \E p \in BatchPayloads(state) : Call(Action("BATCH_DELETE", p), 1)
BatchComplete == \E p \in BatchPayloads(state) : Call(Action("BATCH_COMPLETE", p), 1)
SetTagFilter ==
    \E p \in {Str("x"), Null, Num(1), Undefined} : Call(Action("SET_TAG_FILTER", p), 1)
Malformed == \E a \in MalformedActions : Call(a, 1)

\* A deferred callback runs: reportError builds the feedback and publishes it.
TimerFire ==
    /\ running = Idle
    /\ timers # <<>>
    /\ \E rnd \in 1..NumRandom :
          running' = TimerCall(reportError(Head(timers).message, Head(timers).severity,
                                           clock, rnd))
    /\ timers' = Tail(timers)
    /\ UNCHANGED <<state, clock, steps, memo, provider, sink>>

TimerDone ==
    /\ running.kind = "timer"
    /\ running' = Idle
    /\ UNCHANGED <<state, clock, timers, steps, memo, provider, sink>>

\* A millisecond passes.
Tick ==
    /\ running = Idle
    /\ clock < MaxClock
    /\ clock' = clock + 1
    /\ UNCHANGED <<state, timers, steps, running, memo, provider, sink>>

Next ==
    \/ AddTask \/ UpdateTask \/ DeleteTask \/ ToggleComplete \/ ReorderTasks
    \/ SetView \/ ToggleMultiSelect \/ ToggleTaskSelection \/ ClearSelections
    \/ SetReorderMode \/ SetEditingTask \/ SetTheme \/ BatchDelete \/ BatchComplete
    \/ SetTagFilter \/ Malformed \/ Commit \/ TimerFire \/ TimerDone \/ Tick

Spec == Init /\ [][Next]_vars

\* The same machine when Math.random() never repeats a suffix within one
\* millisecond: ADD_TASK only ever draws an id no task has.
AddTaskFresh ==
    \E p \in ValidTaskInputs \cup InvalidTaskInputs, rnd \in 1..NumRandom :
        /\ Str(generateId(clock, rnd)) \notin TaskIds(state)
        /\ Call(Action("ADD_TASK", p), rnd)

NextFreshIds ==
    \/ AddTaskFresh \/ UpdateTask \/ DeleteTask \/ ToggleComplete \/ ReorderTasks
    \/ SetView \/ ToggleMultiSelect \/ ToggleTaskSelection \/ ClearSelections
    \/ SetReorderMode \/ SetEditingTask \/ SetTheme \/ BatchDelete \/ BatchComplete
    \/ SetTagFilter \/ Malformed \/ Commit \/ TimerFire \/ TimerDone \/ Tick

SpecFreshIds == Init /\ [][NextFreshIds]_vars

(***************************************************************************)
(* Invariants of the state.                                                *)
(***************************************************************************)
\* C1: in every reachable state, if ui.multiSelectMode is false then
\* ui.selectedTaskIds is empty.
C1_SelectionOnlyInMultiSelect ==
    ~state.ui.multiSelectMode => state.ui.selectedTaskIds = {}

\* C2: in every reachable state, every id in ui.selectedTaskIds is the id of a
\* task in state.tasks.
C2_SelectedIdsExist == state.ui.selectedTaskIds \subseteq TaskIds(state)

\* C3: in every reachable state, ui.editingTaskId is null or the id of a task in
\* state.tasks.
C3_EditingTaskExists ==
    state.ui.editingTaskId = Null \/ state.ui.editingTaskId \in TaskIds(state)

\* C4: in every reachable state, no two tasks of state.tasks have the same id.
C4_IdsUnique ==
    \A i, j \in 1..Len(state.tasks) :
        state.tasks[i].id = state.tasks[j].id => i = j

\* C5: in every reachable state, every task's description is a string that is
\* neither empty nor whitespace-only.
C5_DescriptionsNotBlank ==
    \A i \in 1..Len(state.tasks) :
        /\ state.tasks[i].description.t = "string"
        /\ Trim(state.tasks[i].description.v) # ""

(***************************************************************************)
(* Properties of one reducer call.  While running is a reducer call, state *)
(* is still the state the call was given, running.action the action and    *)
(* running.result what the call returned.                                  *)
(***************************************************************************)
Reducing == running.kind = "reducer"
ActionType == Get(running.action, "type")
ActionPayload == Get(running.action, "payload")

\* C6: for every action validateAction rejects, appReducer returns the very
\* state object it was given, with tasks, ui and theme unchanged.
C6_RejectedActionReturnsInput ==
    Reducing /\ ~validateAction(running.action).isValid =>
        /\ running.result.same
        /\ running.result.state = state

\* A rejected ADD_TASK met a state with tasks and a selection.
C6_Witness ==
    /\ Reducing
    /\ ActionType = Str("ADD_TASK")
    /\ ~validateAction(running.action).isValid
    /\ state.tasks # <<>>
    /\ state.ui.selectedTaskIds # {}
    /\ running.result.same

\* The action names ids, and none of them is the id of a task of s.
TargetsOnlyMissingIds(s, action) ==
    LET type == Get(action, "type")
        payload == Get(action, "payload")
    IN \/ /\ type \in {Str("DELETE_TASK"), Str("TOGGLE_COMPLETE"),
                       Str("SET_EDITING_TASK"), Str("TOGGLE_TASK_SELECTION")}
          /\ payload.t = "string"
          /\ payload \notin TaskIds(s)
       \/ /\ type = Str("UPDATE_TASK")
          /\ Get(payload, "id").t = "string"
          /\ Get(payload, "id") \notin TaskIds(s)
       \/ /\ type \in {Str("BATCH_DELETE"), Str("BATCH_COMPLETE")}
          /\ IsArray(payload)
          /\ \A i \in 1..Len(payload.v) : payload.v[i] \notin TaskIds(s)

\* C7: DELETE_TASK, TOGGLE_COMPLETE, UPDATE_TASK, SET_EDITING_TASK and
\* TOGGLE_TASK_SELECTION with an id that matches no task, and BATCH_DELETE or
\* BATCH_COMPLETE whose payload (possibly empty) shares no id with the tasks,
\* return the input state itself.
C7_MissingTargetReturnsInput ==
    Reducing /\ TargetsOnlyMissingIds(state, running.action) =>
        /\ running.result.same
        /\ running.result.state = state

\* A well-formed BATCH_DELETE of an id no task has met a state with tasks and a
\* selection it would otherwise have cleared.
C7_Witness ==
    /\ Reducing
    /\ ActionType = Str("BATCH_DELETE")
    /\ ActionPayload = Arr(<<GhostId>>)
    /\ TargetsOnlyMissingIds(state, running.action)
    /\ state.tasks # <<>>
    /\ state.ui.selectedTaskIds # {}
    /\ running.result.same

\* The severities of the notifications a call deferred, in order.
Severities(result) == [i \in 1..Len(result.timers) |-> result.timers[i].severity]

\* A single-item action names an id no task of s has.
NamesMissingTask(s, action) ==
    LET type == Get(action, "type")
        payload == Get(action, "payload")
    IN \/ /\ type \in {Str("DELETE_TASK"), Str("TOGGLE_COMPLETE"),
                       Str("TOGGLE_TASK_SELECTION")}
          /\ payload \notin TaskIds(s)
       \/ /\ type = Str("SET_EDITING_TASK")
          /\ payload # Null
          /\ payload \notin TaskIds(s)
       \/ /\ type = Str("UPDATE_TASK")
          /\ Get(payload, "id") \notin TaskIds(s)

\* A batch action none of whose ids is the id of a task of s.
BatchWithoutOverlap(s, action) ==
    /\ Get(action, "type") \in {Str("BATCH_DELETE"), Str("BATCH_COMPLETE")}
    /\ \A i \in 1..Len(Get(action, "payload").v) :
          Get(action, "payload").v[i] \notin TaskIds(s)

IsReorder(action) == Get(action, "type") = Str("REORDER_TASKS")
FromIndex(action) == Get(Get(action, "payload"), "fromIndex")
ToIndex(action) == Get(Get(action, "payload"), "toIndex")
IndicesAreIntegers(action) == IsInteger(FromIndex(action)) /\ IsInteger(ToIndex(action))
IndicesInRange(s, action) ==
    /\ FromIndex(action).v.n \in 0..(Len(s.tasks) - 1)
    /\ ToIndex(action).v.n \in 0..(Len(s.tasks) - 1)

C9_NeverThrows ==
    Reducing =>
        /\ ~validateAction(running.action).threw
        /\ ~running.result.threw

\* The reducer was called with null for an action and returned.
C9_Witness ==
    /\ Reducing
    /\ running.action = Null
    /\ state.tasks # <<>>
    /\ ~running.result.threw

\* C10: after any call the input state, its tasks array, its tasks, its ui and
\* its selectedTaskIds hold what they held before the call.
C10_InputNotMutated == Reducing => running.result.input = state

\* A REORDER_TASKS moved a task, and a TOGGLE_TASK_SELECTION changed the
\* selection: the calls that write to a local array or Set.
C10_Witness ==
    /\ Reducing
    /\ \/ IsReorder(running.action) /\ running.result.state.tasks # state.tasks
       \/ /\ ActionType = Str("TOGGLE_TASK_SELECTION")
          /\ running.result.state.ui.selectedTaskIds # state.ui.selectedTaskIds
    /\ running.result.input = state

(***************************************************************************)
(* What each action does to the state.                                     *)
(***************************************************************************)
Accepted == validateAction(running.action).isValid
OldTasks == state.tasks
NewTasks == running.result.state.tasks

\* C11: for every ADD_TASK whose payload validates, the resulting task list is
\* the previous list, unchanged and in the same order, followed by exactly one
\* new task; the new task has completed=false, the supplied description
\* trimmed, and an id different from the id of every task already in the list.
C11_AddTaskAppendsFreshTask ==
    Reducing /\ ActionType = Str("ADD_TASK") /\ Accepted =>
        /\ Len(NewTasks) = Len(OldTasks) + 1
        /\ SubSeq(NewTasks, 1, Len(OldTasks)) = OldTasks
        /\ NewTasks[Len(NewTasks)].completed = Bool(FALSE)
        /\ NewTasks[Len(NewTasks)].description =
              Str(Trim(Get(ActionPayload, "description").v))
        /\ NewTasks[Len(NewTasks)].id \notin TaskIds(state)

\* C12: for any state and any existing task id, TOGGLE_COMPLETE applied twice
\* with that id yields the original state: the task's completed has its
\* original value and every other field, every other task, the task order, ui
\* and theme are as before.  The call that has returned is the first of the two.
C12_ToggleCompleteTwiceRestores ==
    Reducing /\ ActionType = Str("TOGGLE_COMPLETE") /\ ActionPayload \in TaskIds(state) =>
        appReducer(running.result.state, running.action, clock, 1).state = state

\* The sequence without its k-th element, and how often x occurs in it.
RemoveAt(seq, k) == SubSeq(seq, 1, k - 1) \o SubSeq(seq, k + 1, Len(seq))
Occurrences(seq, x) == Cardinality({i \in 1..Len(seq) : seq[i] = x})

ValidReorder ==
    /\ Reducing /\ IsReorder(running.action) /\ Accepted
    /\ IndicesAreIntegers(running.action)
    /\ IndicesInRange(state, running.action)

\* C13: for every pair of valid indices, REORDER_TASKS produces a permutation
\* of the previous task list (same tasks, same length, nothing duplicated or
\* lost) in which the task that was at fromIndex is at toIndex and all other
\* tasks keep their relative order.
C13_ReorderMovesOneTask ==
    ValidReorder =>
        LET from == FromIndex(running.action).v.n + 1
            to == ToIndex(running.action).v.n + 1
        IN /\ Len(NewTasks) = Len(OldTasks)
           /\ \A i \in 1..Len(OldTasks) :
                 Occurrences(NewTasks, OldTasks[i]) = Occurrences(OldTasks, OldTasks[i])
           /\ NewTasks[to] = OldTasks[from]
           /\ RemoveAt(NewTasks, to) = RemoveAt(OldTasks, from)

\* The first of three different tasks was moved to the end.
C13_Witness ==
    /\ ValidReorder
    /\ Len(OldTasks) = 3
    /\ Cardinality(TaskIds(state)) = 3
    /\ FromIndex(running.action) = Num(0)
    /\ ToIndex(running.action) = Num(2)
    /\ NewTasks = <<OldTasks[2], OldTasks[3], OldTasks[1]>>

\* The ids of the payload of a batch action that are ids of tasks.
MatchingIds ==
    {ActionPayload.v[i] : i \in 1..Len(ActionPayload.v)} \cap TaskIds(state)

\* C14: a BATCH_DELETE the validator accepts removes exactly the tasks whose id is both in the payload
\* and in the task list; ids that match no task are ignored, the remaining
\* tasks keep their contents and relative order, the resulting length is the
\* initial length minus the number of distinct matching ids, and when at least
\* one id matched the result has multiSelectMode=false and no selected id.
C14_BatchDeleteRemovesMatching ==
    Reducing /\ ActionType = Str("BATCH_DELETE") /\ Accepted =>
        LET remains(task) == task.id \notin MatchingIds
        IN /\ NewTasks = SelectSeq(OldTasks, remains)
           /\ Len(NewTasks) = Len(OldTasks) - Cardinality(MatchingIds)
           /\ MatchingIds # {} =>
                 /\ ~running.result.state.ui.multiSelectMode
                 /\ running.result.state.ui.selectedTaskIds = {}

\* The two tasks differ at most in completed.
SameButCompleted(old, new) ==
    /\ DOMAIN new = DOMAIN old
    /\ \A f \in DOMAIN old \ {"completed"} : new[f] = old[f]

\* C15: a BATCH_COMPLETE the validator accepts, with at least one matching id,
\* sets completed=true on exactly the tasks whose id is in the payload, leaves every other task, every
\* other field of the completed tasks and the task order unchanged, and results
\* in multiSelectMode=false and no selected id.
C15_BatchCompleteCompletesMatching ==
    Reducing /\ ActionType = Str("BATCH_COMPLETE") /\ Accepted /\ MatchingIds # {} =>
        /\ Len(NewTasks) = Len(OldTasks)
        /\ \A i \in 1..Len(OldTasks) :
              IF OldTasks[i].id \in MatchingIds
              THEN /\ NewTasks[i].completed = Bool(TRUE)
                   /\ SameButCompleted(OldTasks[i], NewTasks[i])
              ELSE NewTasks[i] = OldTasks[i]
        /\ ~running.result.state.ui.multiSelectMode
        /\ running.result.state.ui.selectedTaskIds = {}

\* In multi-select mode with a selection, a BATCH_COMPLETE naming a task and an
\* id of no task completed the one and left another task alone.
C15_Witness ==
    /\ Reducing /\ ActionType = Str("BATCH_COMPLETE") /\ Accepted
    /\ MatchingIds # {}
    /\ \E i \in 1..Len(ActionPayload.v) : ActionPayload.v[i] = GhostId
    /\ state.ui.selectedTaskIds # {}
    /\ \E i, j \in 1..Len(OldTasks) :
          /\ NewTasks[i] # OldTasks[i]
          /\ NewTasks[i].completed = Bool(TRUE)
          /\ OldTasks[j].id \notin MatchingIds
    /\ running.result.state.ui.selectedTaskIds = {}

\* C16: after TOGGLE_MULTI_SELECT in any reachable state, multiSelectMode is
\* flipped and selectedTaskIds is empty, on exiting and on entering.
C16_ToggleMultiSelectClears ==
    Reducing /\ ActionType = Str("TOGGLE_MULTI_SELECT") =>
        /\ running.result.state.ui.multiSelectMode = ~state.ui.multiSelectMode
        /\ running.result.state.ui.selectedTaskIds = {}

OldUi == state.ui
NewUi == running.result.state.ui

\* C17: DELETE_TASK with an existing id removes exactly that task (all other
\* tasks keep their contents and order), removes that id from selectedTaskIds
\* leaving the other selected ids, sets editingTaskId to null if and only if it
\* equalled the deleted id, and leaves selectedView, multiSelectMode,
\* reorderMode, selectedTag and theme unchanged.
C17_DeleteTaskRemovesOneTask ==
    Reducing /\ ActionType = Str("DELETE_TASK") /\ ActionPayload \in TaskIds(state) =>
        /\ \E k \in 1..Len(OldTasks) :
              /\ OldTasks[k].id = ActionPayload
              /\ NewTasks = RemoveAt(OldTasks, k)
        /\ NewUi.selectedTaskIds = OldUi.selectedTaskIds \ {ActionPayload}
        /\ NewUi.editingTaskId =
              IF OldUi.editingTaskId = ActionPayload THEN Null ELSE OldUi.editingTaskId
        /\ NewUi.selectedView = OldUi.selectedView
        /\ NewUi.multiSelectMode = OldUi.multiSelectMode
        /\ NewUi.reorderMode = OldUi.reorderMode
        /\ NewUi.selectedTag = OldUi.selectedTag
        /\ running.result.state.theme = state.theme

\* C18: UPDATE_TASK, TOGGLE_COMPLETE and BATCH_COMPLETE never change the id or
\* the createdAt of any task, whatever the updates payload contains.
C18_IdAndCreatedAtImmutable ==
    /\ Reducing
    /\ ActionType \in {Str("UPDATE_TASK"), Str("TOGGLE_COMPLETE"), Str("BATCH_COMPLETE")}
    => /\ Len(NewTasks) = Len(OldTasks)
       /\ \A i \in 1..Len(OldTasks) :
             /\ NewTasks[i].id = OldTasks[i].id
             /\ NewTasks[i].createdAt = OldTasks[i].createdAt

\* The field constraints of the data model, for one task.
IsTagList(tags) ==
    /\ IsArray(tags)
    /\ Len(tags.v) <= MaxTagCount
    /\ \A i \in 1..Len(tags.v) :
          /\ tags.v[i].t = "string"
          /\ Trim(tags.v[i].v) # ""
          /\ Len(tags.v[i].v) <= MaxTagLength
IsDueDate(dueDate) ==
    \/ dueDate = Null
    \/ IsFinite(dueDate) /\ dueDate.v.n >= 0
FieldsWellFormed(task) ==
    /\ task.priority \in {Str("low"), Str("medium"), Str("high"), Str("critical")}
    /\ IsDueDate(task.dueDate)
    /\ IsTagList(task.tags)
    /\ task.completed.t = "boolean"

\* C19: in every reachable state every task has a priority among low, medium,
\* high, critical; a dueDate that is null or a finite non-negative number; tags
\* that are at most 20 strings, each non-empty and at most 50 characters; and a
\* boolean completed.
C19_TaskFieldsWellFormed ==
    \A i \in 1..Len(state.tasks) : FieldsWellFormed(state.tasks[i])

(***************************************************************************)
(* The validator on its own: validateAction applied to ADD_TASK actions    *)
(* whose payload takes every combination of the field values below.        *)
(***************************************************************************)
\* Marks a property the payload does not have.
Absent == [t |-> "absent", v |-> 0]
Field(name, value) == IF value = Absent THEN [k \in {} |-> Null] ELSE name :> value

DescriptionInputs ==
    {Absent, Null, Num(3), Str(""), Str("  "), Str("a"), Str(" a "),
     Str(Repeat("x", MaxDescriptionLength)),
     Str(" " \o Repeat("x", MaxDescriptionLength) \o " "),
     Str(Repeat("x", MaxDescriptionLength + 1))}
PriorityInputs ==
    {Absent, Undefined, Null, Str(""), Str("low"), Str("medium"), Str("high"),
     Str("critical"), Str("urgent")}
DueDateInputs ==
    {Absent, Null, Num(0), Num(5), Frac(0), Num(0 - 1), Frac(0 - 1), NaN, Infinity,
     NegInfinity, Str("5")}
TagsInputs ==
    {Absent, Null, Str("x"), Arr(<<>>), Arr(<<Str("x")>>), Arr(<<Str(" x ")>>),
     Arr(<<Str("x"), Str("x")>>), Arr(<<Str("x"), Str(" ")>>), Arr(<<Str("")>>),
     Arr(<<Num(1)>>),
     Arr([i \in 1..MaxTagCount |-> Str("x")]),
     Arr([i \in 1..(MaxTagCount + 1) |-> Str("x")]),
     Arr(<<Str(Repeat("x", MaxTagLength))>>),
     Arr(<<Str(Repeat("x", MaxTagLength + 1))>>),
     Arr(<<Str(" " \o Repeat("x", MaxTagLength - 1) \o " ")>>)}

TaskInputGrid ==
    {Obj(Field("description", d) @@ Field("priority", p) @@ Field("dueDate", u)
         @@ Field("tags", g)) :
        d \in DescriptionInputs, p \in PriorityInputs, u \in DueDateInputs,
        g \in TagsInputs}
    \cup {Null, Undefined, Str("a"), Num(1), Bool(TRUE), Arr(<<>>)}

\* validateAction(action) has returned result.
ValidatorCall(action, result) ==
    [kind |-> "validator", action |-> action, result |-> result]

ValidateAddTask ==
    /\ running = Idle
    /\ \E p \in TaskInputGrid :
          running' = ValidatorCall(Action("ADD_TASK", p),
                                   validateAction(Action("ADD_TASK", p)))
    /\ UNCHANGED <<state, clock, timers, steps, memo, provider, sink>>

ValidateDone ==
    /\ running.kind = "validator"
    /\ running' = Idle
    /\ UNCHANGED <<state, clock, timers, steps, memo, provider, sink>>

NextValidate == ValidateAddTask \/ ValidateDone

SpecValidate == Init /\ [][NextValidate]_vars

Validating == running.kind = "validator"

\* What the payload of an ADD_TASK must be to be accepted.
AcceptableDescription(d) == d.t = "string" /\ Len(Trim(d.v)) \in 1..MaxDescriptionLength
AcceptablePriority(p) ==
    p = Undefined \/ p \in {Str("low"), Str("medium"), Str("high"), Str("critical")}
AcceptableDueDate(u) ==
    \/ u \in {Null, Undefined}
    \/ u.t = "number" /\ u.v.k \in {"int", "frac"} /\ u.v.n >= 0
AcceptableTags(g) ==
    \/ g = Undefined
    \/ /\ g.t = "array"
       /\ Len(g.v) <= MaxTagCount
       /\ \A i \in 1..Len(g.v) :
             /\ g.v[i].t = "string"
             /\ Trim(g.v[i].v) # ""
             /\ Len(g.v[i].v) <= MaxTagLength
AcceptableTaskInput(p) ==
    /\ p.t \in {"object", "array"}
    /\ AcceptableDescription(Get(p, "description"))
    /\ AcceptablePriority(Get(p, "priority"))
    /\ AcceptableDueDate(Get(p, "dueDate"))
    /\ AcceptableTags(Get(p, "tags"))

\* C20: validateAction accepts an ADD_TASK action if and only if its payload is
\* an object whose description is a string that, trimmed, is non-empty and has
\* at most 500 characters; whose priority is absent or one of the four levels;
\* whose dueDate is null, absent or a finite non-negative number; and whose
\* tags are absent or an array of at most 20 strings, each non-empty after
\* trimming and of at most 50 characters.
C20_AddTaskAcceptedIffWellFormed ==
    Validating =>
        /\ ~running.result.threw
        /\ running.result.isValid <=> AcceptableTaskInput(ActionPayload)

\* A payload at every limit was accepted: 500 characters between two spaces,
\* a fractional due date, 20 tags.
C20_Witness ==
    /\ Validating
    /\ Get(ActionPayload, "description") =
          Str(" " \o Repeat("x", MaxDescriptionLength) \o " ")
    /\ Get(ActionPayload, "priority") = Str("critical")
    /\ Get(ActionPayload, "dueDate") = Frac(0)
    /\ Get(ActionPayload, "tags") = Arr([i \in 1..MaxTagCount |-> Str("x")])
    /\ running.result.isValid

\* C21: REORDER_TASKS changes the task order only when fromIndex and toIndex
\* are both integers in [0, tasks.length); for every other payload
\* (non-numeric, fractional, negative, too large or missing indices, any
\* indices when the task list is empty, a payload that is no object) the call
\* returns the state object it was given, unchanged.
C21_ReorderOnlyWithValidIndices ==
    Reducing /\ IsReorder(running.action) =>
        /\ NewTasks # OldTasks =>
              IndicesAreIntegers(running.action) /\ IndicesInRange(state, running.action)
        /\ ~(IndicesAreIntegers(running.action) /\ IndicesInRange(state, running.action)) =>
              /\ ~running.result.threw
              /\ running.result.same
              /\ running.result.state = state
              /\ running.result.input = state

\* A fractional index on a list of two different tasks returned the input.
C21_Witness ==
    /\ Reducing /\ IsReorder(running.action)
    /\ Len(OldTasks) = 2 /\ OldTasks[1] # OldTasks[2]
    /\ FromIndex(running.action) = Frac(0) /\ ToIndex(running.action) = Num(0)
    /\ running.result.same

(***************************************************************************)
(* The selectors as a state machine.  A call runs to completion: memo      *)
(* holds the closures after it and running what it returned, with the      *)
(* call made just before it (prev) when that was a selector call too.      *)
(***************************************************************************)
SelectorCall(name, input, called, now) ==
    [kind |-> "selector", name |-> name, input |-> input, result |-> called.result,
     computed |-> called.computed, now |-> now,
     prev |-> IF running.kind = "selector"
              THEN [name |-> running.name, input |-> running.input,
                    result |-> running.result]
              ELSE [name |-> "", input |-> Undefined, result |-> Undefined]]

\* The object a call allocates: no earlier call allocated it.
FreshRef == "r" \o ToString(steps)

\* Three selectors built the way the unit tests build them, each called with
\* a state whose selected input is any value: createSelector with the default
\* equality and value => ({ value }), createSelector with arrayEqualityFn and
\* tasks => tasks.length, and createSelectorMulti over two inputs with
\* (a, b) => [a, b].
SelectWrap ==
    \E input \in {Undefined, Null, NaN, Num(0), Num(1), Str(""), Str("a"),
                  [t |-> "object", v |-> <<>>, ref |-> "o1"],
                  [t |-> "object", v |-> <<>>, ref |-> "o2"]} :
        LET called == createSelector(memo.wrapSelector, input,
                          defaultEqualityFn(memo.wrapSelector.lastInput, input),
                          [t |-> "object", v |-> [value |-> input], ref |-> FreshRef])
        IN /\ steps < MaxCalls
           /\ memo' = [memo EXCEPT !.wrapSelector = called.closure]
           /\ running' = SelectorCall("wrapSelector", input, called, clock)
           /\ steps' = steps + 1
           /\ UNCHANGED <<state, clock, timers, provider, sink>>

SelectLength ==
    \E ref \in {"a", "b"},
       items \in {<<>>, <<NaN>>, <<Str("x")>>, <<Str("y")>>, <<Str("x"), Str("y")>>} :
        LET input == NewArray(ref, items)
            called == createSelector(memo.lengthSelector, input,
                          arrayEqualityFn(memo.lengthSelector.lastInput, input),
                          Num(Len(input.v)))
        IN /\ steps < MaxCalls
           /\ memo' = [memo EXCEPT !.lengthSelector = called.closure]
           /\ running' = SelectorCall("lengthSelector", input, called, clock)
           /\ steps' = steps + 1
           /\ UNCHANGED <<state, clock, timers, provider, sink>>

SelectPair ==
    \E a \in {Undefined, NaN, Num(1), Str("x")}, b \in {Undefined, NaN, Num(1), Str("x")} :
        LET currentInputs == NewArray(FreshRef, <<a, b>>)
            called == createSelectorMulti(memo.pairSelector, currentInputs,
                          NewArray(FreshRef \o "'", currentInputs.v))
        IN /\ steps < MaxCalls
           /\ memo' = [memo EXCEPT !.pairSelector = called.closure]
           /\ running' = SelectorCall("pairSelector", currentInputs, called, clock)
           /\ steps' = steps + 1
           /\ UNCHANGED <<state, clock, timers, provider, sink>>

SpecMemo == Init /\ [][SelectWrap \/ SelectLength \/ SelectPair]_vars

(***************************************************************************)
(* Claims about the selectors.                                             *)
(***************************************************************************)
Selecting == running.kind = "selector"

\* The equality function the selector called was built with.
EqualInputs(name, prev, next) ==
    IF name = "wrapSelector" THEN defaultEqualityFn(prev, next)
    ELSE arrayEqualityFn(prev, next)

\* C22: for every selector built by createSelector or createSelectorMulti and
\* every input value, a call whose input is equal, by the selector's equality
\* function, to the input of the call made just before it returns the
\* identical result instance and does not run the compute function again.
C22_EqualInputReturnsCachedInstance ==
    /\ Selecting
    /\ running.prev.name = running.name
    /\ EqualInputs(running.name, running.prev.input, running.input)
    => /\ running.result = running.prev.result
       /\ ~running.computed

\* C23: a selector built by createSelector recomputes whenever the current
\* input is not equal, by its equality function, to the input of the call
\* made just before it, and what it returns is always the compute function
\* (here: wrapping the input, and the length of the input) applied to the
\* current input.
C23_ReturnsComputeOfCurrentInput ==
    Selecting /\ running.name \in {"wrapSelector", "lengthSelector"} =>
        /\ running.name = "wrapSelector" => running.result.v = [value |-> running.input]
        /\ running.name = "lengthSelector" => running.result = Num(Len(running.input.v))
        /\ /\ running.prev.name = running.name
           /\ ~EqualInputs(running.name, running.prev.input, running.input)
           => running.computed

\* A second call with a longer array than the first recomputed the length.
C23_Witness ==
    /\ Selecting /\ running.name = "lengthSelector"
    /\ running.prev.name = "lengthSelector"
    /\ Len(running.prev.input.v) = 1 /\ Len(running.input.v) = 2
    /\ running.computed
    /\ running.result = Num(2)

(***************************************************************************)
(* The smart views as a state machine: a state with a short list of        *)
(* well-formed tasks, the selectors called on it while the clock advances. *)
(* Day 1 is today when the run starts; the due dates lie on day 0, on day  *)
(* 1, on day 2, on day 8 (seven days after day 1) and on day 9, at         *)
(* midnight and later in the day.                                          *)
(***************************************************************************)
InitViews ==
    LET Task(completed, priority, dueDate, tags) ==
            [id |-> Str("task"), description |-> Str("d"), completed |-> Bool(completed),
             createdAt |-> Num(0), priority |-> Str(priority), dueDate |-> dueDate,
             tags |-> Arr(tags)]
        dueDates == {Null, Num(0), Num(1), Num(DayLength), Num(DayLength + 1),
                     Num(2 * DayLength), Num(8 * DayLength), Num(8 * DayLength + 1),
                     Num(9 * DayLength)}
        single ==
            {Task(c, "medium", d, <<>>) : c \in BOOLEAN, d \in dueDates}
            \cup {Task(c, p, Null, <<>>) : c \in BOOLEAN, p \in {"low", "high", "critical"}}
            \cup {Task(FALSE, "medium", Num(DayLength + 1), g) :
                     g \in {<<Str("x")>>, <<Str("b"), Str("a"), Str("B")>>,
                            <<Str("ab"), Str("x"), Str("a")>>}}
        paired ==
            {Task(FALSE, "medium", Num(1), <<Str("x")>>),
             Task(FALSE, "high", Num(DayLength + 1), <<Str("b"), Str("a"), Str("B")>>),
             Task(FALSE, "critical", Num(8 * DayLength + 1), <<Str("ab"), Str("x"), Str("a")>>),
             Task(TRUE, "high", Num(DayLength), <<Str("a")>>),
             Task(FALSE, "low", Num(0), <<>>)}
        lists == {<<>>} \cup {<<t>> : t \in single}
                 \cup {p \in paired \X paired : p[1] # p[2]}
        \* Every task of a list has its own id.
        WithIds(list) ==
            [i \in 1..Len(list) |-> [list[i] EXCEPT !.id = Str("task_" \o ToString(i))]]
    IN /\ \E list \in lists :
             state = [initialState EXCEPT !.tasks = NewArray("tasks", WithIds(list))]
       /\ clock \in {DayLength, DayLength + 1}
       /\ timers = <<>>
       /\ steps = 0
       /\ running = Idle
       /\ memo = NoSelectorRun
       /\ provider = Mounted(TRUE, FALSE)
       /\ sink = NoListeners

\* A memoized smart view is called with the state.
SelectView ==
    \E name \in {"selectTodayTasks", "selectUpcomingTasks", "selectHighPriorityTasks",
                 "selectCompletedTasks", "selectAllTasks"} :
        LET called == selectView(name, memo, state, clock, FreshRef)
        IN /\ steps < MaxCalls
           /\ memo' = [memo EXCEPT ![name] = called.closure]
           /\ running' = SelectorCall(name, state.tasks, called, clock)
           /\ steps' = steps + 1
           /\ UNCHANGED <<state, clock, timers, provider, sink>>

\* selectTasksByView is called with a state that holds the same tasks and any
\* selected view and tag.
SelectByView ==
    \E view \in {"all", "today", "upcoming", "priority", "completed"},
       tag \in {Null, Str(""), Str("x"), Str("a")} :
        LET shown == [state EXCEPT !.ui.selectedView = Str(view), !.ui.selectedTag = tag]
            called == selectTasksByView(memo, shown, clock, FreshRef)
        IN /\ steps < MaxCalls
           /\ state' = shown
           /\ memo' = called.closures
           /\ running' = SelectorCall("selectTasksByView", shown.tasks,
                                      [result |-> called.result, computed |-> TRUE], clock)
           /\ steps' = steps + 1
           /\ UNCHANGED <<clock, timers, provider, sink>>

SelectAllTags ==
    /\ steps < MaxCalls
    /\ running' = SelectorCall("selectAllTags", state.tasks,
                               [result |-> selectAllTags(state, FreshRef),
                                computed |-> TRUE], clock)
    /\ steps' = steps + 1
    /\ UNCHANGED <<state, clock, timers, memo, provider, sink>>

\* Time passes, at most until midnight of day 2.
Elapse ==
    /\ clock < 2 * DayLength
    /\ clock' = clock + 1
    /\ UNCHANGED <<state, timers, steps, running, memo, provider, sink>>

SpecViews ==
    InitViews /\ [][SelectView \/ SelectByView \/ SelectAllTags \/ Elapse]_vars

\* The local calendar day a time value lies on, and the days from the day of
\* the call to the day a task is due.
LocalDay(time) == time \div DayLength
DaysAhead(task) == LocalDay(task.dueDate.v.n) - LocalDay(running.now)

\* Due today or on an earlier day, and not completed.
DueToday(task) ==
    /\ task.dueDate # Null
    /\ task.completed = Bool(FALSE)
    /\ DaysAhead(task) <= 0

\* Due on one of the seven days after today, and not completed.
DueUpcoming(task) ==
    /\ task.dueDate # Null
    /\ task.completed = Bool(FALSE)
    /\ DaysAhead(task) \in 1..7

\* C24: selectTodayTasks returns exactly the tasks of state.tasks, in their
\* order, whose dueDate is not null, that are not completed and whose due date
\* falls on the local calendar day of the call or on an earlier day; a task
\* with dueDate null never appears.
C24_TodayIsDueTodayOrEarlier ==
    Selecting /\ running.name = "selectTodayTasks" =>
        running.result.v = SelectSeq(running.input.v, DueToday)

\* C25: selectUpcomingTasks returns exactly the tasks of state.tasks, in their
\* order, whose dueDate is not null, that are not completed and whose due date
\* falls on a local calendar day at least 1 and at most 7 days after the day
\* of the call.
C25_UpcomingIsNextSevenDays ==
    Selecting /\ running.name = "selectUpcomingTasks" =>
        running.result.v = SelectSeq(running.input.v, DueUpcoming)

\* The tasks the view named by selectedView shows.
InView(view, task) ==
    CASE view = Str("today") -> DueToday(task)
      [] view = Str("upcoming") -> DueUpcoming(task)
      [] view = Str("priority") ->
           /\ task.completed = Bool(FALSE)
           /\ task.priority \in {Str("high"), Str("critical")}
      [] view = Str("completed") -> task.completed = Bool(TRUE)
      [] view = Str("all") -> TRUE

\* C26: selectTasksByView returns the tasks of the view named in
\* ui.selectedView (all: every task; today and upcoming: the Today and
\* Upcoming sets; priority: not completed with priority high or critical;
\* completed: the completed tasks) and, whenever ui.selectedTag is a string,
\* only those of them whose tags contain that string; when selectedTag is null
\* no tag filtering is applied.
C26_ByViewThenByTag ==
    Selecting /\ running.name = "selectTasksByView" =>
        running.result.v =
            SelectSeq(running.input.v, LAMBDA task :
                /\ InView(state.ui.selectedView, task)
                /\ state.ui.selectedTag.t = "string" =>
                      \E i \in 1..Len(task.tags.v) : task.tags.v[i] = state.ui.selectedTag)

\* Every tag on a task of the list.
TagsOf(tasks) == {tasks[i].tags.v[j] : <<i, j>> \in
                     {p \in (1..Len(tasks)) \X (1..MaxTagCount) :
                         p[2] <= Len(tasks[p[1]].tags.v)}}

\* C27: selectAllTags returns every tag that appears on at least one task,
\* each exactly once, in ascending order of their UTF-16 code units, and
\* nothing else; it is empty exactly when no task has a tag.
C27_AllTagsSortedAndUnique ==
    Selecting /\ running.name = "selectAllTags" =>
        LET tags == running.result.v
        IN /\ {tags[i] : i \in 1..Len(tags)} = TagsOf(running.input.v)
           /\ \A i \in 1..(Len(tags) - 1) : CodeUnitLess(tags[i], tags[i + 1])
           /\ tags = <<>> <=> \A i \in 1..Len(running.input.v) :
                                 running.input.v[i].tags.v = <<>>

\* Two tasks that share a tag: five tags in code unit order, the shared one
\* once.
C27_Witness ==
    /\ Selecting /\ running.name = "selectAllTags"
    /\ Len(running.input.v) = 2
    /\ running.result.v = <<Str("B"), Str("a"), Str("ab"), Str("b"), Str("x")>>

(***************************************************************************)
(* The queued dispatch as a state machine: event handlers call dispatch,   *)
(* and the callbacks processQueue and processBatch scheduled run later,    *)
(* each call to completion.  The provider is mounted in a development or a *)
(* production build, with or without requestAnimationFrame.                *)
(***************************************************************************)
InitProvider ==
    /\ state = initialState
    /\ clock = 0
    /\ timers = <<>>
    /\ steps = 0
    /\ running = Idle
    /\ memo = NoSelectorRun
    /\ \E dev \in BOOLEAN, raf \in BOOLEAN : provider = Mounted(dev, raf)
    /\ sink = NoListeners

\* An event handler calls dispatch with an action, or with no action at all.
Dispatch ==
    \E action \in {ActionNoPayload("TOGGLE_MULTI_SELECT"),
                   ActionNoPayload("CLEAR_SELECTIONS"), Null} :
        /\ Len(provider.submitted) < MaxDispatches
        /\ provider' = [dispatch(provider, action) EXCEPT
                           !.submitted = Append(@, action),
                           !.last = [op |-> "dispatch",
                                     wasProcessing |-> provider.isProcessing]]
        /\ UNCHANGED <<state, clock, timers, steps, running, memo, sink>>

\* The frame or the timer a processBatch callback waits for arrives.
ProcessBatch ==
    /\ provider.scheduled # <<>>
    /\ provider' = [processBatch([provider EXCEPT !.scheduled = Tail(@)]) EXCEPT
                       !.last = [op |-> "processBatch",
                                 wasProcessing |-> provider.isProcessing]]
    /\ UNCHANGED <<state, clock, timers, steps, running, memo, sink>>

SpecProvider == InitProvider /\ [][Dispatch \/ ProcessBatch]_vars

\* Scheduled frame and timer callbacks eventually run.
SpecProviderFair == SpecProvider /\ WF_vars(ProcessBatch)

(***************************************************************************)
(* Claims about the queued dispatch.                                       *)
(***************************************************************************)
\* The actions of a sequence that are actions at all (not null or undefined).
Given(actions) == SelectSeq(actions, LAMBDA action : ~Falsy(action))

\* C28: the actions submitted through the queued dispatch are handed to the
\* reducer in exactly the order in which dispatch was called, whatever the
\* interleaving of dispatch calls and drain batches: what was handed over,
\* followed by what still waits in the queue, is what was submitted, in
\* submission order.
C28_AppliedInDispatchOrder ==
    /\ provider.applied \o Given(provider.actionQueue) = Given(provider.submitted)
    /\ \E n \in 0..Len(provider.submitted) :
          provider.actionQueue =
              SubSeq(provider.submitted, n + 1, Len(provider.submitted))

\* A production build: dispatch was called again while the drain was
\* scheduled, a first batch of batchSize actions was handed over, two different
\* actions among them, and the rest waits for the next frame.
C28_Witness ==
    /\ provider.raf /\ ~provider.dev
    /\ Len(provider.applied) = batchSize
    /\ \E i, j \in 1..batchSize : provider.applied[i] # provider.applied[j]
    /\ provider.actionQueue # <<>>
    /\ provider.scheduled # <<>>
    /\ provider.last.op = "processBatch"

\* C29: every action submitted through dispatch is eventually handed to the
\* reducer, exactly once and in its place (what is handed over is always a
\* prefix of what was submitted, and every submission is eventually part of
\* it), and the draining flag returns to false once the queue is empty,
\* provided scheduled frame and timer callbacks eventually run.
C29_EverySubmittedActionApplied ==
    /\ [](/\ Len(provider.applied) <= Len(provider.submitted)
          /\ provider.applied = SubSeq(provider.submitted, 1, Len(provider.applied)))
    /\ \A n \in 1..MaxDispatches :
          (Len(provider.submitted) >= n) ~> (Len(provider.applied) >= n)
    /\ (provider.actionQueue = <<>>) ~> ~provider.isProcessing

\* C30: when dispatch is called while no drain is in progress, the whole
\* queue, the action just submitted included, has been handed to the reducer
\* by the time dispatch returns.
C30_DispatchDrainsBeforeReturning ==
    provider.last.op = "dispatch" /\ ~provider.last.wasProcessing =>
        /\ provider.actionQueue = <<>>
        /\ provider.applied = Given(provider.submitted)

(***************************************************************************)
(* Claims about when notifications are delivered.                          *)
(***************************************************************************)
\* C31: a notification for a rejected action is never delivered to listeners
\* during the appReducer call that rejected it.  While the call runs nothing
\* is published and the notification only waits in a setTimeout callback;
\* reportError publishes in a later step, which starts when no reducer call
\* is running and takes the callback that has waited longest.
C31_NotificationDeliveredAfterCall ==
    /\ [](Reducing =>
            /\ running.result.published = <<>>
            /\ Len(running.result.timers) =
                   IF running.result.same /\ ~running.result.threw THEN 1 ELSE 0)
    /\ [][running'.kind = "timer" =>
            /\ running = Idle
            /\ timers # <<>>
            /\ running'.feedback.message = Head(timers).message
            /\ timers' = Tail(timers)]_vars

\* The notification of a BATCH_DELETE whose ids match no task is delivered:
\* the call that rejected it has returned and its state has been taken.
C31_Witness ==
    /\ running.kind = "timer"
    /\ running.feedback.message = "No tasks to delete"
    /\ running.feedback.severity = "info"
    /\ state.tasks # <<>>
    /\ steps >= 2

(***************************************************************************)
(* The provider and its reducer together.  Event handlers call dispatch    *)
(* with any value; React passes the actions handed to baseDispatch to      *)
(* appReducer one at a time, in that order, and takes the state each call  *)
(* returns; the callbacks the calls deferred publish later.                *)
(***************************************************************************)
\* An event handler calls dispatch with an action or with a value that is no
\* action object.
Submit ==
    \E action \in {Null, Undefined, Num(0), Num(7), Str("x"),
                   ActionNoPayload("TOGGLE_MULTI_SELECT")} :
        /\ Len(provider.submitted) < MaxSteps
        /\ provider' = [dispatch(provider, action) EXCEPT
                           !.submitted = Append(@, action),
                           !.last = [op |-> "dispatch",
                                     wasProcessing |-> provider.isProcessing]]
        /\ UNCHANGED <<state, clock, timers, steps, running, memo, sink>>

\* React calls the reducer with the next action baseDispatch was given.
Reduce ==
    /\ steps < Len(provider.applied)
    /\ Call(provider.applied[steps + 1], 1)

SpecStore ==
    InitProvider /\ [][Submit \/ ProcessBatch \/ Reduce \/ Commit \/ TimerFire
                       \/ TimerDone]_vars

\* C32: a non-object action (null, undefined, a number, a string) submitted
\* through dispatch becomes a no-op plus an error notification: every value
\* the drain has taken from the queue was handed to the reducer, and the
\* reducer call for a non-object returns the state it was given and defers
\* the notification "Something went wrong. Please try again" with severity
\* error.
C32_NonObjectActionIsNotified ==
    /\ provider.applied =
           SubSeq(provider.submitted, 1,
                  Len(provider.submitted) - Len(provider.actionQueue))
    /\ Reducing /\ NotAnObject(running.action) =>
           /\ running.result.same
           /\ running.result.state = state
           /\ running.result.timers =
                  <<Deferred("Something went wrong. Please try again", "error")>>

(***************************************************************************)
(* The reducer and the smart views together.  Between reducer calls a      *)
(* component reads a memoized smart view of the state the store holds; the *)
(* clock stands still.  state.tasks is an array object of its own after    *)
(* every reducer call: where the reducer kept the array, the test          *)
(* prev === next of arrayEqualityFn would answer true at once, and the     *)
(* element-wise test it falls back to here answers the same.               *)
(***************************************************************************)
\* A component calls a smart view with the state, and the call returns.
ReadView ==
    \/ \E name \in {"selectTodayTasks", "selectUpcomingTasks",
                    "selectHighPriorityTasks", "selectCompletedTasks",
                    "selectAllTasks"} :
          LET shown == [state EXCEPT
                           !.tasks = NewArray("tasks" \o ToString(steps), state.tasks)]
              called == selectView(name, memo, shown, clock, FreshRef)
              used == {n \in DOMAIN memo : memo[n].hasRun} \cup {name}
          IN /\ running = Idle
             /\ Cardinality(used) <= MaxViews
             /\ memo' = [memo EXCEPT ![name] = called.closure]
             /\ running' = SelectorCall(name, shown.tasks, called, clock)
             /\ UNCHANGED <<state, clock, timers, steps, provider, sink>>
    \/ /\ running.kind = "selector"
       /\ running' = Idle
       /\ UNCHANGED <<state, clock, timers, steps, memo, provider, sink>>

SpecReadViews ==
    Init /\ [][AddTask \/ DeleteTask \/ ToggleComplete \/ ReorderTasks \/ SetView
               \/ Commit \/ TimerFire \/ TimerDone \/ ReadView]_vars

\* C33: after any sequence of reducer actions, a memoized smart view called
\* with the resulting state returns the tasks its filter selects from the
\* current state.tasks at the time of the call, whether it answers from its
\* cache or computes: the cache never serves the result of a task list whose
\* content has changed since.
C33_ViewOfCurrentTasks ==
    Selecting =>
        running.result.v =
            selectView(running.name, NoSelectorRun,
                       [state EXCEPT !.tasks = running.input], running.now,
                       "fresh").result.v

\* The priority view answered from its cache with the array it had computed
\* before a later reducer call, which left every task as it was; the array
\* holds some of the tasks and not all.
C33_Witness ==
    /\ Selecting
    /\ running.name = "selectHighPriorityTasks"
    /\ ~running.computed
    /\ running.result.ref # FreshRef
    /\ running.result.v # <<>>
    /\ running.result.v # running.input.v

(***************************************************************************)
(* Claims about what a reducer call shares with its input.                 *)
(***************************************************************************)
\* C34: the actions SET_VIEW, SET_REORDER_MODE, SET_TAG_FILTER,
\* SET_EDITING_TASK, SET_THEME, TOGGLE_MULTI_SELECT, TOGGLE_TASK_SELECTION and
\* CLEAR_SELECTIONS return a state whose tasks is the identical array as
\* before, and ADD_TASK, UPDATE_TASK, TOGGLE_COMPLETE and REORDER_TASKS return
\* a state whose ui and theme are the identical objects as before.
C34_UntouchedPartsAreShared ==
    Reducing =>
        /\ ActionType \in {Str("SET_VIEW"), Str("SET_REORDER_MODE"),
                           Str("SET_TAG_FILTER"), Str("SET_EDITING_TASK"),
                           Str("SET_THEME"), Str("TOGGLE_MULTI_SELECT"),
                           Str("TOGGLE_TASK_SELECTION"), Str("CLEAR_SELECTIONS")} =>
              /\ "tasks" \in running.result.kept
              /\ running.result.state.tasks = state.tasks
        /\ ActionType \in {Str("ADD_TASK"), Str("UPDATE_TASK"), Str("TOGGLE_COMPLETE"),
                           Str("REORDER_TASKS")} =>
              /\ {"ui", "selectedTaskIds", "theme"} \subseteq running.result.kept
              /\ running.result.state.ui = state.ui
              /\ running.result.state.theme = state.theme

\* An accepted SET_VIEW changed the view of a state that holds tasks and a
\* selection.
C34_Witness ==
    /\ Reducing
    /\ ActionType = Str("SET_VIEW")
    /\ ~running.result.same
    /\ running.result.state.ui.selectedView # state.ui.selectedView
    /\ state.tasks # <<>>
    /\ state.ui.selectedTaskIds # {}

\* C35: TOGGLE_TASK_SELECTION applied twice with the same existing task id
\* restores the members of selectedTaskIds.  The call that has returned is the
\* first of the two: it adds the id if it was absent and removes it if it was
\* present, and changes no other id, no task and no other ui field; the
\* second call, made with the state the first returned, gives back the
\* original state.
C35_ToggleSelectionTwiceRestores ==
    Reducing /\ ActionType = Str("TOGGLE_TASK_SELECTION")
             /\ ActionPayload \in TaskIds(state) =>
        LET first == running.result.state
            second == appReducer(first, running.action, clock, 1).state
            selected == state.ui.selectedTaskIds
        IN /\ first.ui.selectedTaskIds =
                  IF ActionPayload \in selected THEN selected \ {ActionPayload}
                  ELSE selected \cup {ActionPayload}
           /\ first.ui.selectedTaskIds # selected
           /\ first = [state EXCEPT !.ui.selectedTaskIds = first.ui.selectedTaskIds]
           /\ second = state

\* The id toggled was selected and names one of two tasks: the first call
\* removes it and the second adds it again.
C35_Witness ==
    /\ Reducing
    /\ ActionType = Str("TOGGLE_TASK_SELECTION")
    /\ ActionPayload \in state.ui.selectedTaskIds
    /\ ActionPayload \in TaskIds(state)
    /\ Len(state.tasks) >= 2
    /\ ActionPayload \notin running.result.state.ui.selectedTaskIds

(***************************************************************************)
(* Claims about the smart views while the clock advances.                  *)
(***************************************************************************)
\* C36: for any sequence of calls made while the clock advances,
\* selectTodayTasks and selectUpcomingTasks return the tasks their filter
\* selects for the local day on which the call is made, also when state.tasks
\* has not changed since a call made on an earlier day.
C36_ViewOfTheDayOfTheCall ==
    Selecting /\ running.name \in {"selectTodayTasks", "selectUpcomingTasks"} =>
        running.result.v =
            selectView(running.name, NoSelectorRun, state, running.now,
                       "today").result.v

(***************************************************************************)
(* Claims about the drain of the action queue.                             *)
(***************************************************************************)
\* C37: at any moment at most one drain of the action queue is active or
\* scheduled.  At most one processBatch callback waits for its frame or
\* timer, and only while the draining flag is true; a call to dispatch made
\* while the flag is true only appends its action to the queue: it hands
\* nothing to the reducer and schedules nothing.
C37_AtMostOneDrain ==
    /\ [](/\ Len(provider.scheduled) <= 1
          /\ provider.scheduled # <<>> => provider.isProcessing)
    /\ [][provider.isProcessing /\ provider'.submitted # provider.submitted =>
            /\ provider'.scheduled = provider.scheduled
            /\ provider'.applied = provider.applied
            /\ provider'.isProcessing
            /\ provider'.actionQueue =
                   Append(provider.actionQueue,
                          provider'.submitted[Len(provider'.submitted)])]_vars

\* dispatch was called while a drain was scheduled, after actions had been
\* handed to the reducer: one callback waits and the queue holds the action.
C37_Witness ==
    /\ provider.last.op = "dispatch"
    /\ provider.last.wasProcessing
    /\ provider.isProcessing
    /\ Len(provider.scheduled) = 1
    /\ provider.applied # <<>>
    /\ Len(provider.actionQueue) >= 1

(***************************************************************************)
(* The error feedback as a state machine: components subscribe listeners,  *)
(* call the unsubscribe functions they were given, any number of times,    *)
(* and reportError publishes a feedback to the listeners.  After a         *)
(* publication running holds the listeners subscribed when it started      *)
(* (before) and the listeners it called, in order (called).                *)
(***************************************************************************)
Subscribe ==
    \E listener \in {"toast", "throws", "once"} :
        /\ Len(sink.subscriptions) < MaxListeners
        /\ sink' = subscribeToErrors(sink, listener)
        /\ UNCHANGED <<state, clock, timers, steps, running, memo, provider>>

\* A component calls the unsubscribe function of a subscription made, also
\* one it has called before.
Unsubscribe ==
    \E k \in 1..Len(sink.subscriptions) :
        /\ sink' = unsubscribe(sink, k)
        /\ UNCHANGED <<state, clock, timers, steps, running, memo, provider>>

\* reportError hands a feedback to notifyListeners.
Publish ==
    LET notified == notifyListeners(sink)
    IN /\ sink.errorListeners # <<>>
       /\ sink' = notified.sink
       /\ running' = [kind |-> "notify",
                      feedback |-> reportError("Task not found", "warning", clock, 1),
                      before |-> sink.errorListeners,
                      called |-> notified.called]
       /\ UNCHANGED <<state, clock, timers, steps, memo, provider>>

SpecListeners == Init /\ [][Subscribe \/ Unsubscribe \/ Publish]_vars

\* C38: each published notification is delivered exactly once to every
\* listener subscribed when publishing starts, whatever the listeners do
\* during delivery (throw, or unsubscribe from inside the callback): every
\* listener function is called as many times as it was subscribed when the
\* publication started.
C38_DeliveredOnceToEveryListener ==
    running.kind = "notify" =>
        \A listener \in {"toast", "throws", "once"} :
            Occurrences(running.called, listener) =
                Occurrences(running.before, listener)

\* C39: calling the unsubscribe function returned by subscribeToErrors
\* removes exactly the subscription it was returned for, and calling it again
\* has no further effect: at any time every listener function is in the
\* array of listeners once for each of its subscriptions whose unsubscribe
\* function has not been called, so that a publication reaches exactly those.
C39_UnsubscribeRemovesItsSubscription ==
    \A listener \in {"toast", "throws", "once"} :
        Occurrences(sink.errorListeners, listener) =
            Cardinality({k \in 1..Len(sink.subscriptions) \ sink.cancelled :
                            sink.subscriptions[k] = listener})

(***************************************************************************)
(* Claims about the message of a validation failure.                       *)
(***************************************************************************)
\* C40: the user message published for a validation failure matches the
\* check that failed.  For every action validateAction rejects, the
\* notification the reducer defers carries the description message when the
\* description is empty, the too-long message when it is over-long, the
\* priority message for an invalid priority, the due-date message for every
\* failure of validateDueDate, the tags message for every failure of
\* validateTags, and the generic message for every other failure.
C40_MessageMatchesFailedCheck ==
    Reducing /\ ~validateAction(running.action).isValid =>
        LET error == validateAction(running.action).error
            expected ==
                CASE error = "Task description cannot be empty" ->
                       "Please enter a valid task description"
                  [] error = "Task description too long (max 500 characters)" ->
                       "Task description is too long"
                  [] error = "Invalid priority level" ->
                       "Please select a valid priority level"
                  [] error \in {"Due date must be a number (Unix timestamp) or null",
                                "Due date cannot be negative",
                                "Due date must be a finite number"} ->
                       "Please select a valid due date"
                  [] error \in {"Tags must be an array", "Too many tags (max 20)",
                                "All tags must be strings", "Tags cannot be empty",
                                "Tag too long (max 50 characters)"} ->
                       "Please check your tags"
                  [] OTHER -> "Something went wrong. Please try again"
        IN running.result.timers = <<Deferred(expected, "error")>>

====
